---- MODULE Spec2Model ----
(***************************************************************************)
(* Model of the mt5-monitor main backend (src/main-backend/app): the       *)
(* Versus store and engine (Congelar / Transferir, API and scheduler), the *)
(* account -> agent map and the Smart Cache.                               *)
(*                                                                         *)
(* Every coroutine is cut at its awaits on agent HTTP calls: one action is *)
(* the code that runs between two such awaits, together with the agent's   *)
(* answer to the call that ended the previous segment.  Awaits that never  *)
(* yield to the event loop on their own (an uncontended asyncio.Lock, the  *)
(* already created HTTP client) do not cut a segment.                      *)
(***************************************************************************)
EXTENDS Integers, Sequences, FiniteSets, TLC

\* ---------------------------------------------------------------- bounds
\* Versus records ever created (ids are fresh uuids, never reused).
MaxRecords == 1
\* Congelar / Transferir requests the API receives over a run.
MaxApiCalls == 2
\* Positions the agents open over a run; past it every open is refused.
MaxTickets == 4
\* Largest value of the model clock.
MaxTime == 2
\* SmartCache.ttl_seconds, in ticks of the model clock.
ttl_seconds == 1
\* Scheduled bulk insertions (cache.set tasks) not yet run.
MaxPendingSets == 1
MaxTrades == 1
\* fetch_all_agents calls that can be in flight together.
MaxFetches == 2
\* Largest value a failure counter is followed to.
MaxFailures == 3

\* ----------------------------------------------------------- environment
\* settings.VPS_AGENTS and the account each agent's terminal reports.
Agents == {"agent-1", "agent-2"}
Accounts == {100, 200}
OwnerAgent(a) == IF a = 100 THEN "agent-1" ELSE "agent-2"
NoAgent == "none"

VARIABLES
    versus_configs,   \* VersusManager.versus_configs: id -> config
    nextId,           \* ids handed out so far + 1
    account_vps,      \* AccountVPSCache._cache: account -> agent name | NoAgent
    inv,              \* in-flight and finished step invocations, by slot
    nApi,             \* API step requests received so far
    sched_pc,         \* position of check_scheduled_versus in its loop
    sched_queue,      \* configs of the current scan still to execute
    positions,        \* the agents' positions; a ticket is an index
    sent,             \* per record: orders sent to the agents, steps succeeded
    cache_accounts,   \* SmartCache._accounts: account -> (snapshot, cached_at)
    agent_statuses,   \* SmartCache._agent_statuses: agent -> (status, cached_at)
    last_full_refresh,\* SmartCache._last_full_refresh, -1 for None
    pending_sets,     \* GET /api/accounts requests up to their _async_set task
    phases,           \* PhaseManager.phases: account -> phase
    now,              \* datetime.now()
    last_read,        \* the last SmartCache.get_account call and its answer
    agent_failure_counts, \* DataAggregator.agent_failure_counts
    fetches,          \* fetch_all_agents calls in flight: call -> agent -> fetch_agent_data
    vs_values,        \* VSManager.vs_values: account -> group, NoVs for no key
    vs_file,          \* the content of vs_data.json
    last_vs,          \* the last PUT /api/accounts/{n}/vs and its status code
    phase_file,       \* the content of the phase data file
    phase_updated,    \* per account: the value of its last update_phase, or NoPhase
    store_pc,         \* the overlay write in progress, if any
    torn,             \* the overlay files left truncated by an interrupted write
    restarts,         \* process restarts so far
    last_create,      \* the last POST /api/versus: the request and its outcome
    TRADING_ENABLED,  \* settings.TRADING_ENABLED
    VERSUS_ENABLED,   \* settings.VERSUS_ENABLED
    last_request,     \* the last HTTP request and the answer of the app
    last_calc,        \* the last quote handled by a step and what was derived from it
    shutdown_event    \* shutdown_event.is_set()

vars == << versus_configs, nextId, account_vps, inv, nApi, sched_pc,
           sched_queue, positions, sent, cache_accounts, agent_statuses,
           last_full_refresh, pending_sets, phases, now, last_read,
           agent_failure_counts, fetches, vs_values, vs_file, last_vs,
           phase_file, phase_updated, store_pc, torn, restarts, last_create,
           TRADING_ENABLED, VERSUS_ENABLED, last_request, last_calc,
           shutdown_event >>

versusVars == << versus_configs, nextId, inv, nApi, sched_pc, sched_queue,
                 positions, sent >>
cacheVars == << cache_accounts, agent_statuses, last_full_refresh,
                pending_sets, phases >>
aggVars == << agent_failure_counts, fetches >>
vsVars == << vs_values, vs_file, last_vs >>
storeVars == << phase_file, phase_updated, store_pc, torn, restarts >>
createVars == << last_create >>
httpVars == << TRADING_ENABLED, VERSUS_ENABLED, last_request >>
calcVars == << last_calc >>
lifeVars == << shutdown_event >>
auxVars == << last_read, aggVars, vsVars, storeVars, createVars, httpVars,
             calcVars, lifeVars >>

\* ----------------------------------------------------------- Phase overlay
Phases == {"F1", "F2"}

\* PhaseManager.phases is a dict; NoPhase marks an account with no key.
NoPhase == "none"

\* PhaseManager.get_phase
get_phase(dict, account_number) ==
    IF dict[account_number] = NoPhase THEN "F1" ELSE dict[account_number]

\* A plausible slip: the value is stored under every key.
update_phase_all(dict, account_number, phase_value) ==
    [a \in DOMAIN dict |-> phase_value]

\* PhaseManager.update_phase: the dict after the assignment.
update_phase(dict, account_number, phase_value) ==
    [dict EXCEPT ![account_number] = phase_value]

\* No overlay write is in progress.
NoWrite == [pc |-> "idle", store |-> "none", before |-> << >>,
            account_number |-> 0, value |-> << >>]

\* -------------------------------------------------------------- VS overlay
\* The accounts a VS group can be given to: the agents' accounts and one
\* account number no agent reports.
VsAccounts == Accounts \cup {300}

\* A vs_group is a sequence of characters; << >> is the empty string, and
\* stands for None where a snapshot has no group.
NoVs == << >>
VsInputs == { << >>, <<"A">>, <<" ", "A", " ">>, <<"B">> }

RECURSIVE lstrip(_)
lstrip(v) == IF v # << >> /\ Head(v) = " " THEN lstrip(Tail(v)) ELSE v
RECURSIVE rstrip(_)
rstrip(v) ==
    IF v # << >> /\ v[Len(v)] = " " THEN rstrip(SubSeq(v, 1, Len(v) - 1)) ELSE v
\* str.strip
strip(v) == rstrip(lstrip(v))

NoVsCall == [account_number |-> 0, vs_group |-> << >>, status_code |-> 0]

\* A plausible slip: the stored groups are compared with the value as sent.
update_vs_unstripped(values, account_number, vs_value) ==
    IF strip(vs_value) # << >>
    THEN LET accounts_with_this_vs ==
               {acc \in VsAccounts : values[acc] = vs_value /\ acc # account_number}
         IN IF Cardinality(accounts_with_this_vs) >= 2
            THEN [success |-> FALSE, vs_values |-> values, save |-> FALSE]
            ELSE [success |-> TRUE, save |-> TRUE,
                  vs_values |-> [values EXCEPT ![account_number] = strip(vs_value)]]
    ELSE IF values[account_number] # NoVs
    THEN [success |-> TRUE, save |-> TRUE,
          vs_values |-> [values EXCEPT ![account_number] = NoVs]]
    ELSE [success |-> TRUE, vs_values |-> values, save |-> FALSE]

\* VSManager.update_vs: the success flag, the overlay after the call and
\* whether save_vs_values was called.
update_vs(values, account_number, vs_value) ==
    IF strip(vs_value) # << >>
    THEN LET accounts_with_this_vs ==
               {acc \in VsAccounts : values[acc] = strip(vs_value) /\ acc # account_number}
         IN IF Cardinality(accounts_with_this_vs) >= 2
            THEN [success |-> FALSE, vs_values |-> values, save |-> FALSE]
            ELSE [success |-> TRUE, save |-> TRUE,
                  vs_values |-> [values EXCEPT ![account_number] = strip(vs_value)]]
    ELSE IF values[account_number] # NoVs
    THEN [success |-> TRUE, save |-> TRUE,
          vs_values |-> [values EXCEPT ![account_number] = NoVs]]
    ELSE [success |-> TRUE, vs_values |-> values, save |-> FALSE]

\* ------------------------------------------------------------ Smart Cache
NoEntry == [present |-> FALSE, phase |-> "F1", vs_group |-> << >>, cached_at |-> 0]

\* SmartCache._is_expired
_is_expired(cached_at, t) == t - cached_at > ttl_seconds

\* A plausible slip: the whole cache is dropped instead of one entry.
invalidate_account_all(accounts, account_number) ==
    [a \in Accounts |-> NoEntry]

\* SmartCache.invalidate_account: the _accounts map after the call
invalidate_account(accounts, account_number) ==
    [accounts EXCEPT ![account_number] = NoEntry]

\* A plausible slip: the expiry test is skipped on a read.
get_account_result_any(accounts, account_number, t) == accounts[account_number]

\* SmartCache.get_account: the snapshot returned, NoEntry for None
get_account_result(accounts, account_number, t) ==
    IF accounts[account_number].present
       /\ ~_is_expired(accounts[account_number].cached_at, t)
    THEN accounts[account_number]
    ELSE NoEntry

\* No get_account call has been made yet.
NoRead == [account |-> 0, present |-> FALSE, age |-> 0]

\* -------------------------------------------------------------- aggregator
Calls == 1..MaxFetches
\* DataAggregator.max_failures_before_recovery
max_failures_before_recovery == 2
\* fetch_agent_data not running; `accounts` is the list it returns, each
\* snapshot named by the GET that delivered it and the status it reports.
NoFetch == [pc |-> "idle", accounts |-> << >>, status |-> "none",
            last |-> "none", refresh |-> "none"]

\* ----------------------------------------------------------- Versus store
Statuses == {"pending", "congelado", "transferido", "completed", "error"}

\* A plausible slip: tickets_a is dropped on a status update.
update_status_drop_a(cfgs, versus_id, status, tickets_a, tickets_b, error_message) ==
    IF versus_id \notin DOMAIN cfgs THEN cfgs
    ELSE [cfgs EXCEPT ![versus_id] =
            [@ EXCEPT !.status = status,
                      !.tickets_b = IF tickets_b = {} THEN @
                                    ELSE CHOOSE t \in tickets_b : TRUE,
                      !.error_message = IF error_message = {} THEN @
                                        ELSE CHOOSE m \in error_message : TRUE]]

\* A plausible slip: tickets_b is dropped on a status update.
update_status_drop_b(cfgs, versus_id, status, tickets_a, tickets_b, error_message) ==
    IF versus_id \notin DOMAIN cfgs THEN cfgs
    ELSE [cfgs EXCEPT ![versus_id] =
            [@ EXCEPT !.status = status,
                      !.tickets_a = IF tickets_a = {} THEN @
                                    ELSE CHOOSE t \in tickets_a : TRUE,
                      !.error_message = IF error_message = {} THEN @
                                        ELSE CHOOSE m \in error_message : TRUE]]

\* VersusManager.update_status: the store after the call.  An optional
\* argument is the empty set for None and a singleton for a given value.
update_status(cfgs, versus_id, status, tickets_a, tickets_b, error_message) ==
    IF versus_id \notin DOMAIN cfgs THEN cfgs
    ELSE [cfgs EXCEPT ![versus_id] =
            [@ EXCEPT !.status = status,
                      !.tickets_a = IF tickets_a = {} THEN @
                                    ELSE CHOOSE t \in tickets_a : TRUE,
                      !.tickets_b = IF tickets_b = {} THEN @
                                    ELSE CHOOSE t \in tickets_b : TRUE,
                      !.error_message = IF error_message = {} THEN @
                                        ELSE CHOOSE m \in error_message : TRUE]]

\* VersusManager.delete
delete(cfgs, versus_id) ==
    [i \in DOMAIN cfgs \ {versus_id} |-> cfgs[i]]

\* str.upper() on the side values a request carries
Upper(s) == IF s = "buy" THEN "BUY" ELSE IF s = "sell" THEN "SELL" ELSE s

\* The config VersusManager.create stores for an accepted request; usd is
\* <<tp_usd_a, sl_usd_a, tp_usd_b, sl_usd_b>>.
NewConfig(versus_id, account_a, account_b, side, usd, sc, st) ==
    [ id |-> versus_id, account_a |-> account_a, account_b |-> account_b,
      side |-> Upper(side), status |-> "pending",
      tp_usd_a |-> usd[1], sl_usd_a |-> usd[2],
      tp_usd_b |-> usd[3], sl_usd_b |-> usd[4],
      scheduled_congelar |-> sc, scheduled_transferir |-> st,
      tickets_a |-> <<>>, tickets_b |-> <<>>, error_message |-> "none" ]

\* Insertion order of the store: ids are handed out in increasing order.
RECURSIVE IdsInOrder(_, _)
IdsInOrder(S, n) ==
    IF n = 0 THEN <<>>
    ELSE IF n \in S THEN Append(IdsInOrder(S, n - 1), n)
         ELSE IdsInOrder(S, n - 1)

\* The scheduled_congelar a create request can carry, seen from now: none,
\* a time that has passed ("due"), a time to come ("future"), both without
\* UTC offset, and a time that has passed given with a UTC offset
\* ("due_aware"), which create stores with the offset.
Schedules == {"none", "due", "future", "due_aware"}

\* VersusManager.get_pending_scheduled compares each pending config's
\* datetime.fromisoformat(scheduled_congelar) with the naive datetime.now():
\* for a time stored with an offset the comparison raises TypeError.
get_pending_scheduled_raises(cfgs) ==
    \E i \in DOMAIN cfgs : /\ cfgs[i].status = "pending"
                           /\ cfgs[i].scheduled_congelar = "due_aware"

\* A scan that takes every pending config that has a schedule, passed or
\* not.
get_pending_scheduled_any(cfgs) ==
    IdsInOrder({i \in DOMAIN cfgs : cfgs[i].status = "pending"
                                    /\ cfgs[i].scheduled_congelar # "none"},
               MaxRecords + 1)

\* VersusManager.get_pending_scheduled: pending configs whose
\* scheduled_congelar has passed ("due"), in store order.
get_pending_scheduled(cfgs) ==
    IdsInOrder({i \in DOMAIN cfgs : cfgs[i].status = "pending"
                                    /\ cfgs[i].scheduled_congelar = "due"},
               MaxRecords + 1)

\* VersusManager.get_pending_scheduled_transferir: congelado configs whose
\* scheduled_transferir has passed, in store order.
get_pending_scheduled_transferir(cfgs) ==
    IdsInOrder({i \in DOMAIN cfgs : cfgs[i].status = "congelado"
                                    /\ cfgs[i].scheduled_transferir = "due"},
               MaxRecords + 1)

\* ---------------------------------------------------------------- agents
\* POST /positions/open accepted by the agent owning `account`.
AgentOpen(pos, account, order_type, versus_id) ==
    Append(pos, [account |-> account, order_type |-> order_type,
                 open |-> TRUE, versus |-> versus_id])

\* POST /positions/close accepted by the agent.
AgentClose(pos, ticket) == [pos EXCEPT ![ticket].open = FALSE]

\* The agent can accept an open while the run's position budget lasts.
CanOpen(pos) == Len(pos) < MaxTickets

\* The agent can accept a close only of a position that is open.
CanClose(pos, ticket) == ticket \in 1..Len(pos) /\ pos[ticket].open

\* What `sent` counts: the orders of each kind, and the invocations of each
\* step that returned success.
OrderKinds == {"buy_a", "sell_a", "rollback_a", "close_a", "modify_a", "open_b",
               "congelar_ok", "transferir_ok"}
NoOrders == [k \in OrderKinds |-> 0]
Bump(s, versus_id, kind) == [s EXCEPT ![versus_id][kind] = @ + 1]

\* ------------------------------------------------------------ invocations
\* Slot 0 is the scheduler's current step, slots 1..MaxApiCalls the API's.
Slots == 0..MaxApiCalls
NoInv == [ kind |-> "none", src |-> "none", id |-> 0, pc |-> "idle",
           account_a |-> 100, account_b |-> 200, side |-> "BUY", buy |-> 0, sell |-> 0, tb |-> <<>>, closed |-> 0,
           result |-> "none", calls |-> 0, rollbacks |-> 0 ]

InFlight(r) == r.pc \notin {"idle", "done"}

StatusOf(cfgs, versus_id) ==
    IF versus_id \in DOMAIN cfgs THEN cfgs[versus_id].status ELSE "absent"
TicketsAOf(cfgs, versus_id) ==
    IF versus_id \in DOMAIN cfgs THEN cfgs[versus_id].tickets_a ELSE <<>>
TicketsBOf(cfgs, versus_id) ==
    IF versus_id \in DOMAIN cfgs THEN cfgs[versus_id].tickets_b ELSE <<>>
ErrorOf(cfgs, versus_id) ==
    IF versus_id \in DOMAIN cfgs THEN cfgs[versus_id].error_message ELSE "none"

\* A fresh invocation record: what the step reads when it is entered.
Started(kind, src, versus_id) ==
    [ NoInv EXCEPT !.kind = kind, !.src = src, !.id = versus_id,
        !.account_a = IF versus_id \in DOMAIN versus_configs
                      THEN versus_configs[versus_id].account_a ELSE 100,
        !.account_b = IF versus_id \in DOMAIN versus_configs
                      THEN versus_configs[versus_id].account_b ELSE 200,
        !.side = IF versus_id \in DOMAIN versus_configs
                 THEN versus_configs[versus_id].side ELSE "BUY" ]

\* The invocation record once the step has returned or raised: its locals
\* are gone, its outcome and the count of its agent calls are kept.
Finished(r, result) ==
    [ NoInv EXCEPT !.kind = r.kind, !.src = r.src, !.id = r.id, !.pc = "done",
                   !.result = result, !.calls = r.calls,
                   !.rollbacks = r.rollbacks ]

\* A plausible slip: the except branch logs the failure and leaves the
\* record as it is.
on_step_failure_silent(cfgs, versus_id, message) == cfgs

\* The except branch of execute_congelar, execute_transferir and of the
\* scheduler's loop bodies: whatever the step raised, the record is marked.
on_step_failure(cfgs, versus_id, message) ==
    update_status(cfgs, versus_id, "error", {}, {}, {message})

\* The step in slot s raises `message`; its caller's except branch runs.
Raise(s, message) ==
    LET cfgs == on_step_failure(versus_configs, inv[s].id, message) IN
    /\ versus_configs' = cfgs
    /\ inv' = [inv EXCEPT ![s] = Finished(@, message)]

\* As Raise, for a record `r` of slot s already advanced by this segment.
RaiseWith(s, r, message) ==
    LET cfgs == on_step_failure(versus_configs, r.id, message) IN
    /\ versus_configs' = cfgs
    /\ inv' = [inv EXCEPT ![s] = Finished(r, message)]

\* ----------------------------------------------------------------- Congelar
\* execute_congelar_internal up to its first await on an agent.
CongelarBegin(s, src, versus_id) ==
    LET r == Started("congelar", src, versus_id) IN
    /\ UNCHANGED << positions, sent, cacheVars, account_vps, now, auxVars >>
    /\ IF versus_id \notin DOMAIN versus_configs
       THEN RaiseWith(s, r, "not_found")
       ELSE IF versus_configs[versus_id].status # "pending"
       THEN RaiseWith(s, r, "status_mismatch")
       ELSE /\ versus_configs' = versus_configs
            /\ IF account_vps[versus_configs[versus_id].account_a] = NoAgent
               THEN inv' = [inv EXCEPT ![s] = [r EXCEPT !.pc = "resolve"]]
               ELSE inv' = [inv EXCEPT ![s] = [r EXCEPT !.pc = "quote"]]

\* fetch_all_agents returns (every agent answered); the map is read again.
CongelarResolve(s) ==
    /\ inv[s].kind = "congelar" /\ inv[s].pc = "resolve"
    /\ UNCHANGED << positions, sent, cacheVars, account_vps, now, auxVars >>
    /\ LET r == [inv[s] EXCEPT !.calls = @ + Cardinality(Agents)] IN
       IF account_vps[r.account_a] = NoAgent
       THEN RaiseWith(s, r, "account_not_found")
       ELSE /\ inv' = [inv EXCEPT ![s] = [r EXCEPT !.pc = "quote"]]
            /\ versus_configs' = versus_configs

\* GET /quote/{symbol} answers; the pip distances are computed.
CongelarQuote(s) ==
    /\ inv[s].kind = "congelar" /\ inv[s].pc = "quote"
    /\ UNCHANGED << positions, sent, cacheVars, account_vps, now, auxVars >>
    /\ \E outcome \in {"ok", "failed"} :
         LET r == [inv[s] EXCEPT !.calls = @ + 1] IN
         IF outcome = "ok"
         THEN /\ inv' = [inv EXCEPT ![s] = [r EXCEPT !.pc = "buy"]]
              /\ versus_configs' = versus_configs
         ELSE RaiseWith(s, r, "quote_failed")

\* POST /positions/open (BUY) answers.
CongelarBuy(s) ==
    /\ inv[s].kind = "congelar" /\ inv[s].pc = "buy"
    /\ UNCHANGED << cacheVars, account_vps, now, auxVars >>
    /\ sent' = Bump(sent, inv[s].id, "buy_a")
    /\ \E outcome \in {"ok", "failed"} :
         LET r == [inv[s] EXCEPT !.calls = @ + 1] IN
         IF outcome = "ok"
         THEN /\ CanOpen(positions)
              /\ positions' = AgentOpen(positions, r.account_a, "BUY", r.id)
              /\ inv' = [inv EXCEPT ![s] = [r EXCEPT !.pc = "sell",
                                               !.buy = Len(positions) + 1]]
              /\ versus_configs' = versus_configs
         ELSE /\ positions' = positions
              /\ RaiseWith(s, r, "open_buy_failed")

\* POST /positions/open (SELL) answers: on success the record becomes
\* congelado and A's cache entry is invalidated; a refusal starts the
\* rollback; an exception of the HTTP client goes straight to the caller.
CongelarSell(s) ==
    /\ inv[s].kind = "congelar" /\ inv[s].pc = "sell"
    /\ UNCHANGED << agent_statuses, last_full_refresh, pending_sets, phases,
                    account_vps, now, auxVars >>
    /\ \E outcome \in {"ok", "refused", "exception"} :
         /\ sent' = IF outcome = "ok"
                    THEN Bump(Bump(sent, inv[s].id, "sell_a"), inv[s].id, "congelar_ok")
                    ELSE Bump(sent, inv[s].id, "sell_a")
         /\ LET r == [inv[s] EXCEPT !.calls = @ + 1] IN
            CASE outcome = "ok" ->
                   LET t == Len(positions) + 1
                       cfgs == update_status(versus_configs, r.id, "congelado",
                                             {<< r.buy, t >>}, {}, {})
                   IN /\ CanOpen(positions)
                      /\ positions' = AgentOpen(positions, r.account_a, "SELL", r.id)
                      /\ versus_configs' = cfgs
                      /\ cache_accounts' = invalidate_account(cache_accounts, r.account_a)
                      /\ inv' = [inv EXCEPT ![s] =
                                   Finished([r EXCEPT !.sell = t], "success")]
              [] outcome = "refused" ->
                   /\ positions' = positions
                   /\ cache_accounts' = cache_accounts
                   /\ versus_configs' = versus_configs
                   /\ inv' = [inv EXCEPT ![s] = [r EXCEPT !.pc = "rollback"]]
              [] outcome = "exception" ->
                   /\ positions' = positions
                   /\ cache_accounts' = cache_accounts
                   /\ RaiseWith(s, r, "transport_error")

\* The compensating POST /positions/close of the BUY ticket answers (or
\* raises, which is logged); the original SELL failure is raised.
CongelarRollback(s) ==
    /\ inv[s].kind = "congelar" /\ inv[s].pc = "rollback"
    /\ UNCHANGED << cacheVars, account_vps, now, auxVars >>
    /\ sent' = Bump(sent, inv[s].id, "rollback_a")
    /\ \E outcome \in {"ok", "failed"} :
         LET r == [inv[s] EXCEPT !.calls = @ + 1, !.rollbacks = @ + 1] IN
         /\ IF outcome = "ok"
            THEN /\ CanClose(positions, r.buy)
                 /\ positions' = AgentClose(positions, r.buy)
            ELSE positions' = positions
         /\ RaiseWith(s, r, "open_sell_failed")

\* --------------------------------------------------------------- Transferir
\* A plausible slip: the leg matching `side` is the one closed.
ticket_to_close_same(side, buy_ticket, sell_ticket) ==
    IF side = "BUY" THEN buy_ticket ELSE sell_ticket

\* Leg selection of execute_transferir_internal.
ticket_to_close(side, buy_ticket, sell_ticket) ==
    IF side = "BUY" THEN sell_ticket ELSE buy_ticket
remaining_ticket(side, buy_ticket, sell_ticket) ==
    IF side = "BUY" THEN buy_ticket ELSE sell_ticket
opposite_side(side) == IF side = "BUY" THEN "SELL" ELSE "BUY"

\* execute_transferir_internal up to its first await on an agent.
TransferirBegin(s, src, versus_id) ==
    LET r == Started("transferir", src, versus_id) IN
    /\ UNCHANGED << positions, sent, cacheVars, account_vps, now, auxVars >>
    /\ IF versus_id \notin DOMAIN versus_configs
       THEN RaiseWith(s, r, "not_found")
       ELSE IF versus_configs[versus_id].status # "congelado"
       THEN RaiseWith(s, r, "status_mismatch")
       ELSE IF Len(versus_configs[versus_id].tickets_a) # 2
       THEN RaiseWith(s, r, "tickets_mismatch")
       ELSE LET t == versus_configs[versus_id].tickets_a
                r2 == [r EXCEPT !.buy = t[1], !.sell = t[2]]
            IN /\ versus_configs' = versus_configs
               /\ IF account_vps[r.account_a] = NoAgent
                     \/ account_vps[r.account_b] = NoAgent
                  THEN inv' = [inv EXCEPT ![s] = [r2 EXCEPT !.pc = "resolve"]]
                  ELSE inv' = [inv EXCEPT ![s] = [r2 EXCEPT !.pc = "quote"]]

\* fetch_all_agents returns; both accounts are looked up again.
TransferirResolve(s) ==
    /\ inv[s].kind = "transferir" /\ inv[s].pc = "resolve"
    /\ UNCHANGED << positions, sent, cacheVars, account_vps, now, auxVars >>
    /\ LET r == [inv[s] EXCEPT !.calls = @ + Cardinality(Agents)] IN
       IF account_vps[r.account_a] = NoAgent
          \/ account_vps[r.account_b] = NoAgent
       THEN RaiseWith(s, r, "account_not_found")
       ELSE /\ inv' = [inv EXCEPT ![s] = [r EXCEPT !.pc = "quote"]]
            /\ versus_configs' = versus_configs

\* GET /positions (best effort, read for the commission only) and then
\* GET /quote/{symbol} answer; prices and pip distances are computed.
TransferirQuote(s) ==
    /\ inv[s].kind = "transferir" /\ inv[s].pc = "quote"
    /\ UNCHANGED << positions, sent, cacheVars, account_vps, now, auxVars >>
    /\ \E outcome \in {"ok", "failed"} :
         LET r == [inv[s] EXCEPT !.calls = @ + 2] IN
         IF outcome = "ok"
         THEN /\ inv' = [inv EXCEPT ![s] = [r EXCEPT !.pc = "close"]]
              /\ versus_configs' = versus_configs
         ELSE RaiseWith(s, r, "quote_failed")

\* A plausible slip: a failed close is logged and the step goes on, as it
\* does after a refused modify.
TransferirClose_goes_on(s) ==
    /\ inv[s].kind = "transferir" /\ inv[s].pc = "close"
    /\ UNCHANGED << cacheVars, account_vps, now, auxVars >>
    /\ sent' = Bump(sent, inv[s].id, "close_a")
    /\ \E outcome \in {"ok", "failed"} :
         LET t == ticket_to_close(inv[s].side, inv[s].buy, inv[s].sell)
             r == [inv[s] EXCEPT !.calls = @ + 1] IN
         IF outcome = "ok"
         THEN /\ CanClose(positions, t)
              /\ positions' = AgentClose(positions, t)
              /\ inv' = [inv EXCEPT ![s] = [r EXCEPT !.pc = "modify",
                                                     !.closed = t]]
              /\ versus_configs' = versus_configs
         ELSE /\ positions' = positions
              /\ inv' = [inv EXCEPT ![s] = [r EXCEPT !.pc = "modify"]]
              /\ versus_configs' = versus_configs

\* POST /positions/close of A's counter-leg answers.
TransferirClose(s) ==
    /\ inv[s].kind = "transferir" /\ inv[s].pc = "close"
    /\ UNCHANGED << cacheVars, account_vps, now, auxVars >>
    /\ sent' = Bump(sent, inv[s].id, "close_a")
    /\ \E outcome \in {"ok", "failed"} :
         LET t == ticket_to_close(inv[s].side, inv[s].buy, inv[s].sell)
             r == [inv[s] EXCEPT !.calls = @ + 1] IN
         IF outcome = "ok"
         THEN /\ CanClose(positions, t)
              /\ positions' = AgentClose(positions, t)
              /\ inv' = [inv EXCEPT ![s] = [r EXCEPT !.pc = "modify",
                                                     !.closed = t]]
              /\ versus_configs' = versus_configs
         ELSE /\ positions' = positions
              /\ RaiseWith(s, r, "close_failed")

\* PUT /positions/modify of A's remaining leg answers: a non-200 answer is
\* logged and the step goes on; an exception of the HTTP client is raised.
TransferirModify(s) ==
    /\ inv[s].kind = "transferir" /\ inv[s].pc = "modify"
    /\ UNCHANGED << positions, cacheVars, account_vps, now, auxVars >>
    /\ sent' = Bump(sent, inv[s].id, "modify_a")
    /\ \E outcome \in {"ok", "refused", "exception"} :
         LET r == [inv[s] EXCEPT !.calls = @ + 1] IN
         IF outcome = "exception"
         THEN RaiseWith(s, r, "transport_error")
         ELSE /\ inv' = [inv EXCEPT ![s] = [r EXCEPT !.pc = "open_b"]]
              /\ versus_configs' = versus_configs

\* POST /positions/open of one B leg answers.  A refusal marks the record
\* error before raising; the second success makes the record transferido
\* and invalidates both accounts' cache entries.
TransferirOpenB(s) ==
    /\ inv[s].kind = "transferir" /\ inv[s].pc = "open_b"
    /\ UNCHANGED << agent_statuses, last_full_refresh, pending_sets, phases,
                    account_vps, now, auxVars >>
    /\ \E outcome \in {"ok", "refused", "exception"} :
         /\ sent' = IF outcome = "ok" /\ Len(inv[s].tb) = 1
                    THEN Bump(Bump(sent, inv[s].id, "open_b"), inv[s].id, "transferir_ok")
                    ELSE Bump(sent, inv[s].id, "open_b")
         /\ LET r == [inv[s] EXCEPT !.calls = @ + 1] IN
            CASE outcome = "ok" ->
                   LET t == Len(positions) + 1
                       tb == Append(r.tb, t)
                       r2 == [r EXCEPT !.tb = tb]
                       cfgs == update_status(versus_configs, r.id, "transferido",
                                 {<< remaining_ticket(r.side, r.buy, r.sell) >>},
                                 {tb}, {})
                   IN /\ CanOpen(positions)
                      /\ positions' = AgentOpen(positions, r.account_b,
                                                opposite_side(r.side), r.id)
                      /\ IF Len(tb) < 2
                         THEN /\ inv' = [inv EXCEPT ![s] = r2]
                              /\ versus_configs' = versus_configs
                              /\ cache_accounts' = cache_accounts
                         ELSE /\ versus_configs' = cfgs
                              /\ cache_accounts' =
                                   invalidate_account(
                                       invalidate_account(cache_accounts, r.account_a),
                                       r.account_b)
                              /\ inv' = [inv EXCEPT ![s] = Finished(r2, "success")]
              [] outcome = "refused" ->
                   LET marked == update_status(versus_configs, r.id, "error",
                                               {}, {}, {"open_b_failed"})
                       cfgs == on_step_failure(marked, r.id, "open_b_failed")
                   IN /\ positions' = positions
                      /\ cache_accounts' = cache_accounts
                      /\ versus_configs' = cfgs
                      /\ inv' = [inv EXCEPT ![s] = Finished(r, "open_b_failed")]
              [] outcome = "exception" ->
                   /\ positions' = positions
                   /\ cache_accounts' = cache_accounts
                   /\ RaiseWith(s, r, "transport_error")

\* ---------------------------------------------------------- API requests
\* The thresholds a create request carries:
\* <<tp_usd_a, sl_usd_a, tp_usd_b, sl_usd_b>>.
UsdInputs == { <<10, 20, 30, 40>> }

NoCreate == [account_a |-> 0, account_b |-> 0, lots |-> 0, side |-> "none",
             usd |-> <<0, 0, 0, 0>>, sc |-> "none", st |-> "none",
             status_code |-> 0, id |-> 0, written |-> FALSE]

\* ------------------------------------------------------------- pip maths
\* Fixed-point units: lots in 0.001 lot, USD amounts in whole USD,
\* usd_per_pip in 0.001 USD, pip distances in 0.01 pip, point, pip_value,
\* bid and ask in 0.00001 of price, price levels in 0.0000001 of price.
QuoteKeys == {"bid", "ask", "point", "pip_value", "trade_tick_value",
              "spread_pips"}

\* quote_data.get(key, default): the JSON object lists the keys in `has`.
quote_get(quote, key, default) ==
    IF key \in quote.has THEN quote.val[key] ELSE default

\* round(x, n) on a value in units of which `step` make one unit of the
\* n-th decimal: to the nearest multiple, an exact tie to the even one.
round_to(x, step) ==
    LET q == x \div step
        r == x % step
    IN IF 2 * r < step THEN q * step
       ELSE IF 2 * r > step THEN (q + 1) * step
       ELSE IF q % 2 = 0 THEN q * step ELSE (q + 1) * step

\* usd_per_pip = trade_tick_value * (pip_value / point) * lots, with the
\* defaults the two steps give to absent keys; point is not zero.
usd_per_pip(quote, lots) ==
    quote_get(quote, "trade_tick_value", 1)
      * (quote_get(quote, "pip_value", 10) \div quote_get(quote, "point", 1))
      * lots

\* execute_congelar_internal between the quote and the BUY: the division
\* by a zero point and the check usd_per_pip <= 0 are what raises.
congelar_quote_raises(quote, lots) ==
    \/ quote_get(quote, "point", 1) = 0
    \/ usd_per_pip(quote, lots) <= 0

\* The tp and sl pip distances of Congelar's two orders, rounded to 0.1.
congelar_pips(quote, lots, tp_usd_a, sl_usd_a) ==
    [tp |-> round_to((tp_usd_a * 100 * 1000) \div usd_per_pip(quote, lots), 10),
     sl |-> round_to((sl_usd_a * 100 * 1000) \div usd_per_pip(quote, lots), 10)]

\* execute_transferir_internal between the quote and the close: the price
\* check, the division and the check usd_per_pip <= 0.
transferir_quote_raises(quote, lots, side) ==
    \/ (IF side = "BUY" THEN quote_get(quote, "bid", 0)
                        ELSE quote_get(quote, "ask", 0)) <= 0
    \/ quote_get(quote, "point", 1) = 0
    \/ usd_per_pip(quote, lots) <= 0

\* A plausible slip: A's stops are derived from B's thresholds of the same
\* name.
transferir_prices_uncrossed(quote, lots, side, tp_usd_b, sl_usd_b, commission_per_lot) ==
    LET upp == usd_per_pip(quote, lots)
        spread_pips == quote_get(quote, "spread_pips", 0)
        pip_value == quote_get(quote, "pip_value", 10)
        current_price == IF side = "BUY" THEN quote_get(quote, "bid", 0)
                         ELSE quote_get(quote, "ask", 0)
        commission_pips == (commission_per_lot * lots * 2 * 100) \div upp
        tp_pips_b == (tp_usd_b * 100 * 1000) \div upp
        sl_pips_b == (sl_usd_b * 100 * 1000) \div upp
        sgn == IF side = "BUY" THEN -1 ELSE 1
        new_tp_pips_a == tp_pips_b + sgn * spread_pips - commission_pips
        new_sl_pips_a == sl_pips_b + sgn * spread_pips - commission_pips
    IN [ new_tp_pips_a |-> new_tp_pips_a,
         new_sl_pips_a |-> new_sl_pips_a,
         tp_price_a |-> round_to(current_price * 100 - sgn * new_tp_pips_a * pip_value, 100),
         sl_price_a |-> round_to(current_price * 100 + sgn * new_sl_pips_a * pip_value, 100),
         opposite_side |-> IF side = "BUY" THEN "SELL" ELSE "BUY",
         tp_pips_b_send |-> round_to(tp_pips_b + sgn * spread_pips - commission_pips, 10),
         sl_pips_b_send |-> round_to(sl_pips_b + sgn * spread_pips - commission_pips, 10),
         half_lots |-> round_to(lots, 20) \div 20 ]

\* execute_transferir_internal from the commission to the requests: A's new
\* stops, B's direction, the pip distances sent with B's legs and
\* half_lots = round(lots / 2, 2), in 0.01 lot.
transferir_prices(quote, lots, side, tp_usd_b, sl_usd_b, commission_per_lot) ==
    LET upp == usd_per_pip(quote, lots)
        spread_pips == quote_get(quote, "spread_pips", 0)
        pip_value == quote_get(quote, "pip_value", 10)
        current_price == IF side = "BUY" THEN quote_get(quote, "bid", 0)
                         ELSE quote_get(quote, "ask", 0)
        commission_pips == (commission_per_lot * lots * 2 * 100) \div upp
        tp_pips_b == (tp_usd_b * 100 * 1000) \div upp
        sl_pips_b == (sl_usd_b * 100 * 1000) \div upp
        sgn == IF side = "BUY" THEN -1 ELSE 1
        new_tp_pips_a == sl_pips_b + sgn * spread_pips - commission_pips
        new_sl_pips_a == tp_pips_b + sgn * spread_pips - commission_pips
    IN [ new_tp_pips_a |-> new_tp_pips_a,
         new_sl_pips_a |-> new_sl_pips_a,
         tp_price_a |-> round_to(current_price * 100 - sgn * new_tp_pips_a * pip_value, 100),
         sl_price_a |-> round_to(current_price * 100 + sgn * new_sl_pips_a * pip_value, 100),
         opposite_side |-> IF side = "BUY" THEN "SELL" ELSE "BUY",
         tp_pips_b_send |-> round_to(tp_pips_b + sgn * spread_pips - commission_pips, 10),
         sl_pips_b_send |-> round_to(sl_pips_b + sgn * spread_pips - commission_pips, 10),
         half_lots |-> round_to(lots, 20) \div 20 ]

NoPrices == [ new_tp_pips_a |-> 0, new_sl_pips_a |-> 0, tp_price_a |-> 0,
              sl_price_a |-> 0, opposite_side |-> "none",
              tp_pips_b_send |-> 0, sl_pips_b_send |-> 0, half_lots |-> 0 ]
NoQuote == [has |-> {}, val |-> [k \in QuoteKeys |-> 0]]
NoCalc == [ step |-> "none", quote |-> NoQuote, lots |-> 0, side |-> "none",
            usd |-> <<0, 0, 0, 0>>, commission_per_lot |-> 0,
            raised |-> FALSE, orders |-> 0, tp |-> 0, sl |-> 0,
            prices |-> NoPrices ]

\* A request without Authorization header; no request answered yet.
NoHeader == [present |-> FALSE, scheme |-> "none", token |-> << >>]
NoRequest == [method |-> "none", path |-> << >>, header |-> NoHeader,
              current_time |-> 0, status_code |-> 0, by |-> "none",
              handler |-> "none"]

\* A plausible slip: zero lots pass the validation.
create_rejected_negative(account_a, account_b, lots, side) ==
    account_a = account_b \/ lots < 0 \/ Upper(side) \notin {"BUY", "SELL"}

\* The three checks of create_versus: the request is refused with 400.
create_rejected(account_a, account_b, lots, side) ==
    account_a = account_b \/ lots <= 0 \/ Upper(side) \notin {"BUY", "SELL"}

\* POST /api/versus: validation, then VersusManager.create.
Create ==
    \E account_a \in {100}, account_b \in Accounts, lots \in {0, 1},
       side \in {"BUY", "SELL", "buy", "HOLD"}, usd \in UsdInputs,
       sc \in Schedules, st \in {"none", "due", "future"} :
      /\ nextId <= MaxRecords
      /\ UNCHANGED << inv, nApi, sched_pc, sched_queue, positions, sent,
                      cacheVars, account_vps, now, auxVars >>
      /\ IF create_rejected(account_a, account_b, lots, side)
         THEN UNCHANGED << versus_configs, nextId >>
         ELSE /\ versus_configs' =
                   [i \in DOMAIN versus_configs \cup {nextId} |->
                      IF i = nextId
                      THEN NewConfig(nextId, account_a, account_b, side, usd, sc, st)
                      ELSE versus_configs[i]]
              /\ nextId' = nextId + 1

\* POST /api/versus with its answer recorded: validation, then
\* VersusManager.create, which stores the config and saves the store;
\* save_configs logs a failed write and goes on, so success is reported
\* either way.
create_versus ==
    \E account_a \in Accounts, account_b \in Accounts, lots \in {-1, 0, 1},
       side \in {"BUY", "SELL", "buy", "HOLD"}, usd \in UsdInputs,
       sc \in Schedules, st \in {"none", "due", "future"},
       written \in BOOLEAN :
      LET request == [account_a |-> account_a, account_b |-> account_b,
                      lots |-> lots, side |-> side, usd |-> usd,
                      sc |-> sc, st |-> st] IN
      /\ nextId <= MaxRecords
      /\ UNCHANGED << inv, nApi, sched_pc, sched_queue, positions, sent,
                      cacheVars, account_vps, now, last_read, aggVars, vsVars,
                      storeVars, httpVars, calcVars, lifeVars >>
      /\ IF create_rejected(account_a, account_b, lots, side)
         THEN /\ written = FALSE
              /\ last_create' = request @@ [status_code |-> 400, id |-> 0,
                                            written |-> FALSE]
              /\ UNCHANGED << versus_configs, nextId >>
         ELSE /\ versus_configs' =
                   [i \in DOMAIN versus_configs \cup {nextId} |->
                      IF i = nextId
                      THEN NewConfig(nextId, account_a, account_b, side, usd, sc, st)
                      ELSE versus_configs[i]]
              /\ last_create' = request @@ [status_code |-> 200, id |-> nextId,
                                            written |-> written]
              /\ nextId' = nextId + 1

\* DELETE /api/versus/{id}: every status can be deleted.
Delete ==
    \E versus_id \in DOMAIN versus_configs :
      /\ versus_configs' = delete(versus_configs, versus_id)
      /\ UNCHANGED << nextId, inv, nApi, sched_pc, sched_queue, positions,
                      sent, cacheVars, account_vps, now, auxVars >>

\* POST /api/versus/{id}/congelar
ApiCongelar ==
    \E versus_id \in 1..MaxRecords :
      /\ nApi < MaxApiCalls
      /\ nApi' = nApi + 1
      /\ CongelarBegin(nApi + 1, "api", versus_id)
      /\ UNCHANGED << nextId, sched_pc, sched_queue >>

\* POST /api/versus/{id}/transferir
ApiTransferir ==
    \E versus_id \in 1..MaxRecords :
      /\ nApi < MaxApiCalls
      /\ nApi' = nApi + 1
      /\ TransferirBegin(nApi + 1, "api", versus_id)
      /\ UNCHANGED << nextId, sched_pc, sched_queue >>

\* A suspended step of any invocation resumes.
StepResume ==
    \E s \in Slots :
      /\ UNCHANGED << nextId, nApi, sched_pc, sched_queue >>
      /\ \/ CongelarResolve(s)
         \/ CongelarQuote(s)
         \/ CongelarBuy(s)
         \/ CongelarSell(s)
         \/ CongelarRollback(s)
         \/ TransferirResolve(s)
         \/ TransferirQuote(s)
         \/ TransferirClose(s)
         \/ TransferirModify(s)
         \/ TransferirOpenB(s)

\* The wall clock reaches a schedule that was in the future.
TimePasses ==
    \E versus_id \in DOMAIN versus_configs :
      /\ UNCHANGED << nextId, inv, nApi, sched_pc, sched_queue, positions,
                      sent, cacheVars, account_vps, now, auxVars >>
      /\ \/ /\ versus_configs[versus_id].scheduled_congelar = "future"
            /\ versus_configs' =
                 [versus_configs EXCEPT ![versus_id].scheduled_congelar = "due"]
         \/ /\ versus_configs[versus_id].scheduled_transferir = "future"
            /\ versus_configs' =
                 [versus_configs EXCEPT ![versus_id].scheduled_transferir = "due"]

\* --------------------------------------------------------------- scheduler
\* check_scheduled_versus wakes with the shutdown event not set and the
\* Versus feature enabled, and scans for due Congelar.
SchedScanCongelar ==
    /\ sched_pc = "sleep" /\ ~shutdown_event /\ VERSUS_ENABLED
    /\ IF get_pending_scheduled_raises(versus_configs)
       THEN UNCHANGED << sched_pc, sched_queue >>
       ELSE /\ sched_pc' = "congelar"
            /\ sched_queue' = get_pending_scheduled(versus_configs)
    /\ UNCHANGED << versus_configs, nextId, inv, nApi, positions, sent,
                    cacheVars, account_vps, now, auxVars >>

\* The loop over pending_congelar enters execute_congelar_internal.
SchedNextCongelar ==
    /\ sched_pc = "congelar" /\ ~InFlight(inv[0]) /\ sched_queue # <<>>
    /\ sched_queue' = Tail(sched_queue)
    /\ CongelarBegin(0, "sched", Head(sched_queue))
    /\ UNCHANGED << nextId, nApi, sched_pc >>

\* The Congelar loop is over; the scan for due Transferir runs.
SchedScanTransferir ==
    /\ sched_pc = "congelar" /\ ~InFlight(inv[0]) /\ sched_queue = <<>>
    /\ sched_pc' = "transferir"
    /\ sched_queue' = get_pending_scheduled_transferir(versus_configs)
    /\ UNCHANGED << versus_configs, nextId, inv, nApi, positions, sent,
                    cacheVars, account_vps, now, auxVars >>

\* The loop over pending_transferir enters execute_transferir_internal.
SchedNextTransferir ==
    /\ sched_pc = "transferir" /\ ~InFlight(inv[0]) /\ sched_queue # <<>>
    /\ sched_queue' = Tail(sched_queue)
    /\ TransferirBegin(0, "sched", Head(sched_queue))
    /\ UNCHANGED << nextId, nApi, sched_pc >>

\* The iteration is over; the loop sleeps again unless the while condition
\* finds the shutdown event set.
SchedSleep ==
    /\ sched_pc = "transferir" /\ ~InFlight(inv[0]) /\ sched_queue = <<>>
    /\ sched_pc' = IF shutdown_event THEN "stopped" ELSE "sleep"
    /\ UNCHANGED << versus_configs, nextId, inv, nApi, sched_queue, positions,
                    sent, cacheVars, account_vps, now, auxVars >>

\* ------------------------------------------------------- Versus behaviours
Snapshot(a) == [present |-> TRUE, phase |-> "F1", vs_group |-> << >>, cached_at |-> 0]

\* TRADING_ENABLED=true and VERSUS_ENABLED=true are set in the environment.
FeaturesEnabled == TRADING_ENABLED = TRUE /\ VERSUS_ENABLED = TRUE

\* The backend with the Versus feature enabled, before or after a first
\* GET /api/accounts has filled the account map and the cache.
InitRest ==
    /\ nextId = 1
    /\ inv = [s \in Slots |-> NoInv]
    /\ nApi = 0
    /\ sched_pc = "sleep"
    /\ sched_queue = << >>
    /\ positions = << >>
    /\ sent = [i \in 1..MaxRecords |-> NoOrders]
    /\ now = 0
    /\ agent_statuses = [g \in Agents |-> [present |-> FALSE, cached_at |-> 0]]
    /\ pending_sets = << >>
    /\ phases = [a \in Accounts |-> NoPhase]
    /\ phase_file = phases
    /\ phase_updated = phases
    /\ store_pc = NoWrite
    /\ torn = {}
    /\ restarts = 0
    /\ last_create = NoCreate
    /\ last_request = NoRequest
    /\ last_calc = NoCalc
    /\ shutdown_event = FALSE
    /\ last_read = NoRead
    /\ agent_failure_counts = [g \in Agents |-> 0]
    /\ fetches = [c \in Calls |-> [g \in Agents |-> NoFetch]]
    /\ vs_values = [a \in VsAccounts |-> NoVs]
    /\ vs_file = vs_values
    /\ last_vs = NoVsCall
    /\ \/ /\ account_vps = [a \in Accounts |-> NoAgent]
          /\ cache_accounts = [a \in Accounts |-> NoEntry]
          /\ last_full_refresh = -1
       \/ /\ account_vps = [a \in Accounts |-> OwnerAgent(a)]
          /\ cache_accounts = [a \in Accounts |-> Snapshot(a)]
          /\ last_full_refresh = 0

Init ==
    /\ versus_configs = << >>
    /\ FeaturesEnabled
    /\ InitRest

\* The backend started on a versus_data.json that holds one record from an
\* earlier run: pending, with a scheduled_congelar that has passed and was
\* given with a UTC offset.
LoadedId == MaxRecords + 1
InitLoaded ==
    /\ versus_configs =
          (LoadedId :> NewConfig(LoadedId, 200, 100, "BUY", <<10, 20, 30, 40>>,
                                 "due_aware", "none"))
    /\ FeaturesEnabled
    /\ InitRest

Next ==
    \/ Create
    \/ Delete
    \/ ApiCongelar
    \/ ApiTransferir
    \/ StepResume
    \/ TimePasses
    \/ SchedScanCongelar
    \/ SchedNextCongelar
    \/ SchedScanTransferir
    \/ SchedNextTransferir
    \/ SchedSleep

Spec == Init /\ [][Next]_vars

\* The scheduler task runs for as long as the process does: the loop is a
\* coroutine of the event loop and each of its awaits (the 30 s sleep and
\* the agent calls, which have a timeout) returns, so each of its steps, once
\* enabled, is eventually taken; so is the next step of a request in flight.
SchedFairness ==
    /\ WF_vars(SchedScanCongelar)
    /\ WF_vars(SchedNextCongelar)
    /\ WF_vars(SchedScanTransferir)
    /\ WF_vars(SchedNextTransferir)
    /\ WF_vars(SchedSleep)
    /\ WF_vars(StepResume /\ inv'[0] # inv[0])
    /\ WF_vars(StepResume)

SpecLive == Init /\ [][Next]_vars /\ SchedFairness

SpecLoaded == InitLoaded /\ [][Next]_vars /\ SchedFairness

\* --------------------------------------------------------------- shutdown
\* lifespan after the yield: the shutdown event is set. lifespan runs while
\* the scheduler is suspended at an await, the sleep or an agent call.
Shutdown ==
    /\ ~shutdown_event /\ sched_pc # "stopped"
    /\ sched_pc = "sleep" \/ InFlight(inv[0])
    /\ shutdown_event' = TRUE
    /\ UNCHANGED << versusVars, cacheVars, account_vps, now, last_read,
                    aggVars, vsVars, storeVars, createVars, httpVars,
                    calcVars >>

\* The 30 s sleep ends with the shutdown event set: the loop breaks and the
\* task returns.
SchedStop ==
    /\ sched_pc = "sleep" /\ shutdown_event
    /\ sched_pc' = "stopped"
    /\ UNCHANGED << versus_configs, nextId, inv, nApi, sched_queue, positions,
                    sent, cacheVars, account_vps, now, auxVars >>

\* CancelledError raised at the await of the scheduler's step r: it is not
\* an Exception, so no except branch of the step, of the loop body or of
\* the loop catches it, and the record stays as it is.
Cancelled(r) ==
    /\ versus_configs' = versus_configs
    /\ inv' = [inv EXCEPT ![0] = Finished(r, "cancelled")]

\* lifespan waited 5 s for the task: asyncio.wait_for cancels it at the
\* await where it is suspended, the sleep or an agent call of a step.
WaitForTimeout ==
    /\ shutdown_event /\ sched_pc # "stopped"
    /\ sched_pc = "sleep" \/ InFlight(inv[0])
    /\ sched_pc' = "stopped"
    /\ sched_queue' = << >>
    /\ IF InFlight(inv[0]) THEN Cancelled(inv[0])
       ELSE UNCHANGED << versus_configs, inv >>
    /\ UNCHANGED << nextId, nApi, positions, sent, cacheVars, account_vps, now,
                    auxVars >>

\* The scheduler and the requests that create records, with the shutdown of
\* the backend.
NextShutdown ==
    \/ Create
    \/ StepResume
    \/ SchedScanCongelar
    \/ SchedNextCongelar
    \/ SchedScanTransferir
    \/ SchedNextTransferir
    \/ SchedSleep
    \/ Shutdown
    \/ SchedStop
    \/ WaitForTimeout

SpecShutdown == Init /\ [][NextShutdown]_vars

\* The Versus store under create and delete requests only.
NextCreate ==
    \/ create_versus
    \/ Delete

SpecCreate == Init /\ [][NextCreate]_vars

\* ------------------------------------------------------------- middleware
\* A request path is the sequence of its segments: /api/versus/1/congelar
\* is <<"api", "versus", "1", "congelar">> and / is the empty sequence.
Paths ==
    { << >>,
      <<"api", "auth", "login">>,
      <<"docs">>,
      <<"api", "accounts">>,
      <<"api", "accounts", "100", "trade", "open">>,
      <<"api", "versus">>,
      <<"api", "versus", "1", "congelar">> }

Methods == {"OPTIONS", "GET", "POST"}

\* str.startswith for a prefix made of whole segments.
startswith(path, prefix) ==
    /\ Len(path) >= Len(prefix)
    /\ SubSeq(path, 1, Len(prefix)) = prefix

\* "/trade/" in path: a segment trade that is followed by a slash.
contains_trade(path) == \E i \in 1..(Len(path) - 1) : path[i] = "trade"

\* The public_paths of auth_middleware and its two prefixes.
public_path(path) ==
    \/ path \in { << >>, <<"api", "auth", "login">>, <<"api", "auth", "verify">>,
                  <<"docs">>, <<"openapi.json">>, <<"redoc">> }
    \/ startswith(path, <<"docs">>)
    \/ startswith(path, <<"redoc">>)

\* settings.SESSION_SECRET and settings.TOKEN_EXPIRY_HOURS.
SESSION_SECRET == "secret"
TOKEN_EXPIRY_HOURS == 24

\* hmac.new(key, msg, sha256).hexdigest(): equal exactly for equal key and
\* message.
hexdigest(key, msg) == [key |-> key, msg |-> msg]

\* The Authorization headers a request can carry. A token is the list of
\* the parts that base64-decoding and splitting at "." give: a timestamp in
\* seconds and a signature.
TokenTimes == {0, 3600}
ClockTimes == {86400, 90000}
Bearer(token) == [present |-> TRUE, scheme |-> "Bearer", token |-> token]
generate_token(t) == <<t, hexdigest(SESSION_SECRET, t)>>
AuthHeaders ==
    { NoHeader,
      [present |-> TRUE, scheme |-> "Basic", token |-> generate_token(86400)],
      Bearer(<<86400>>),
      Bearer(<<86400, hexdigest("guess", 86400)>>) }
    \cup { Bearer(generate_token(t)) : t \in TokenTimes }

\* verify_token
verify_token(token, current_time) ==
    IF Len(token) # 2 THEN FALSE
    ELSE IF token[2] # hexdigest(SESSION_SECRET, token[1]) THEN FALSE
    ELSE IF current_time - token[1] > TOKEN_EXPIRY_HOURS * 3600 THEN FALSE
    ELSE TRUE

\* The routes of the app among Paths: the handler a request is dispatched
\* to, "none" where the path has no route for the method.
route(method, path) ==
    IF method = "GET" /\ path = << >> THEN "root"
    ELSE IF method = "POST" /\ path = <<"api", "auth", "login">> THEN "login"
    ELSE IF method = "GET" /\ path = <<"api", "accounts">> THEN "get_all_accounts"
    ELSE IF method = "POST" /\ path = <<"api", "accounts", "100", "trade", "open">>
         THEN "proxy_open_position"
    ELSE IF method = "POST" /\ path = <<"api", "versus">> THEN "create_versus"
    ELSE IF method = "GET" /\ path = <<"api", "versus">> THEN "list_versus"
    ELSE IF method = "POST" /\ path = <<"api", "versus", "1", "congelar">>
         THEN "execute_congelar"
    ELSE IF method = "POST" /\ path = <<"api", "versus", "1", "transferir">>
         THEN "execute_transferir"
    ELSE "none"

Answer(status_code, by, handler) ==
    [status_code |-> status_code, by |-> by, handler |-> handler]

\* The router: the handler runs, or the path has no route for the method.
router(method, path) ==
    IF route(method, path) = "none"
    THEN Answer(IF path = <<"docs">> /\ method = "GET" THEN 200 ELSE 405,
                "router", "none")
    ELSE Answer(200, "router", route(method, path))

\* CORSMiddleware, added first and so the innermost: it answers a preflight
\* itself.
CORSMiddleware(method, path) ==
    IF method = "OPTIONS" THEN Answer(200, "cors", "none")
    ELSE router(method, path)

\* auth_middleware, whose call_next is CORSMiddleware.
auth_middleware(method, path, header, current_time) ==
    IF method = "OPTIONS" THEN CORSMiddleware(method, path)
    ELSE IF public_path(path) THEN CORSMiddleware(method, path)
    ELSE IF ~header.present THEN Answer(401, "auth", "none")
    ELSE IF header.scheme # "Bearer" THEN Answer(401, "auth", "none")
    ELSE IF ~verify_token(header.token, current_time)
         THEN Answer(401, "auth", "none")
    ELSE CORSMiddleware(method, path)

\* A plausible slip: the versus gate is left out.
trading_safety_middleware_trade_only(method, path, header, current_time, trading, versus) ==
    IF method = "OPTIONS" THEN auth_middleware(method, path, header, current_time)
    ELSE IF startswith(path, <<"api", "accounts">>) /\ Len(path) >= 3
            /\ contains_trade(path) /\ ~trading
         THEN Answer(503, "trading_safety", "none")
    ELSE auth_middleware(method, path, header, current_time)

\* trading_safety_middleware, added last and so the outermost: its
\* call_next is auth_middleware.
trading_safety_middleware(method, path, header, current_time, trading, versus) ==
    IF method = "OPTIONS" THEN auth_middleware(method, path, header, current_time)
    ELSE IF startswith(path, <<"api", "accounts">>) /\ Len(path) >= 3
            /\ contains_trade(path) /\ ~trading
         THEN Answer(503, "trading_safety", "none")
    ELSE IF startswith(path, <<"api", "versus">>) /\ ~versus
         THEN Answer(503, "trading_safety", "none")
    ELSE auth_middleware(method, path, header, current_time)

\* One HTTP request through the middleware stack. Of the handlers, those of
\* POST /api/versus and of POST .../trade/open are followed to the store
\* and to the agent: a create_versus stores a valid request, and a
\* proxy_open_position has the order opened by the account's agent while
\* the agent accepts orders.
http_request ==
    \E method \in Methods, path \in Paths, header \in AuthHeaders,
       current_time \in ClockTimes :
      LET answer == trading_safety_middleware(method, path, header, current_time,
                                              TRADING_ENABLED, VERSUS_ENABLED) IN
      /\ answer.handler = "create_versus" => nextId <= MaxRecords
      /\ answer.handler = "proxy_open_position" => Len(positions) < MaxTrades
      /\ last_request' = [method |-> method, path |-> path, header |-> header,
                          current_time |-> current_time] @@ answer
      /\ IF answer.handler = "create_versus"
         THEN /\ versus_configs' =
                   [i \in DOMAIN versus_configs \cup {nextId} |->
                      IF i = nextId
                      THEN NewConfig(nextId, 100, 200, "BUY", <<10, 20, 30, 40>>,
                                     "none", "none")
                      ELSE versus_configs[i]]
              /\ nextId' = nextId + 1
         ELSE UNCHANGED << versus_configs, nextId >>
      /\ IF answer.handler = "proxy_open_position" /\ CanOpen(positions)
         THEN positions' = AgentOpen(positions, 100, "BUY", 0)
         ELSE UNCHANGED positions
      /\ UNCHANGED << inv, nApi, sched_pc, sched_queue, sent, cacheVars,
                      account_vps, now, last_read, aggVars, vsVars, storeVars,
                      createVars, TRADING_ENABLED, VERSUS_ENABLED, calcVars,
                      lifeVars >>

\* The feature flags are read from the environment at start-up and default
\* to False; the account map is filled.
InitHttp ==
    /\ versus_configs = << >>
    /\ TRADING_ENABLED \in BOOLEAN
    /\ VERSUS_ENABLED \in BOOLEAN
    /\ account_vps = [a \in Accounts |-> OwnerAgent(a)]
    /\ InitRest

NextHttp == http_request

SpecHttp == InitHttp /\ [][NextHttp]_vars

\* ---------------------------------------------------------- feature gates
\* The handler that an authenticated POST to `path` reaches through the
\* middleware stack, "none" when a middleware answers it.
Reached(path) ==
    trading_safety_middleware("POST", path, Bearer(generate_token(0)), 86400,
                              TRADING_ENABLED, VERSUS_ENABLED).handler

\* POST /api/versus with a valid request, through the middleware stack.
gated_create ==
    \E sc \in {"none", "due"}, st \in {"none", "due"} :
      /\ Reached(<<"api", "versus">>) = "create_versus"
      /\ nextId <= MaxRecords
      /\ versus_configs' =
           [i \in DOMAIN versus_configs \cup {nextId} |->
              IF i = nextId
              THEN NewConfig(nextId, 100, 200, "BUY", <<10, 20, 30, 40>>, sc, st)
              ELSE versus_configs[i]]
      /\ nextId' = nextId + 1
      /\ UNCHANGED << inv, nApi, sched_pc, sched_queue, positions, sent,
                      cacheVars, account_vps, now, auxVars >>

\* POST /api/versus/1/congelar through the middleware stack.
gated_congelar ==
    /\ Reached(<<"api", "versus", "1", "congelar">>) = "execute_congelar"
    /\ nApi < MaxApiCalls
    /\ nApi' = nApi + 1
    /\ CongelarBegin(nApi + 1, "api", 1)
    /\ UNCHANGED << nextId, sched_pc, sched_queue >>

\* POST /api/versus/1/transferir through the middleware stack.
gated_transferir ==
    /\ Reached(<<"api", "versus", "1", "transferir">>) = "execute_transferir"
    /\ nApi < MaxApiCalls
    /\ nApi' = nApi + 1
    /\ TransferirBegin(nApi + 1, "api", 1)
    /\ UNCHANGED << nextId, sched_pc, sched_queue >>

\* POST /api/accounts/100/trade/open through the middleware stack: the
\* order is opened by the account's agent.
gated_trade_open ==
    /\ Reached(<<"api", "accounts", "100", "trade", "open">>)
          = "proxy_open_position"
    /\ Len(positions) < MaxTrades
    /\ positions' = AgentOpen(positions, 100, "BUY", 0)
    /\ UNCHANGED << versus_configs, nextId, inv, nApi, sched_pc, sched_queue,
                    sent, cacheVars, account_vps, now, auxVars >>

\* The feature flags as the environment sets them; the account map is
\* filled.
InitGate ==
    /\ versus_configs = << >>
    /\ TRADING_ENABLED \in BOOLEAN
    /\ VERSUS_ENABLED \in BOOLEAN
    /\ account_vps = [a \in Accounts |-> OwnerAgent(a)]
    /\ InitRest

\* The endpoints that lead to orders and the scheduler, behind the gates.
NextGate ==
    \/ gated_create
    \/ gated_congelar
    \/ gated_transferir
    \/ gated_trade_open
    \/ StepResume
    \/ SchedScanCongelar
    \/ SchedNextCongelar
    \/ SchedScanTransferir
    \/ SchedNextTransferir
    \/ SchedSleep

SpecGate == InitGate /\ [][NextGate]_vars

\* ------------------------------------------------------- quotes and prices
\* The quotes an agent can answer: the quote of the worked example, and
\* quotes with a wide spread, a zero or negative pip_value, a zero bid or a
\* zero point; each complete or with one key absent.
QuoteVals ==
    LET base == [bid |-> 110000, ask |-> 110010, point |-> 1, pip_value |-> 10,
                 trade_tick_value |-> 1, spread_pips |-> 100] IN
    { base,
      [base EXCEPT !.spread_pips = 600],
      [base EXCEPT !.pip_value = 0],
      [base EXCEPT !.pip_value = -10],
      [base EXCEPT !.bid = 0],
      [base EXCEPT !.point = 0] }
Quotes ==
    { [has |-> QuoteKeys \ m, val |-> v] :
        m \in {{}} \cup {{k} : k \in QuoteKeys}, v \in QuoteVals }

\* Lots a create request can carry and that halve without a tie: 0.001,
\* 0.02 and 1 lot. The four USD thresholds <<tp_a, sl_a, tp_b, sl_b>>.
LotSizes == {1, 20, 1000}
UsdThresholds == { <<30, 25, 50, 25>>, <<10, 20, 30, 40>> }
Commissions == {0, 7}

\* Congelar receives its quote: it raises, or it derives the pip distances
\* and sends the BUY order. One quote is followed per behaviour.
congelar_quote ==
    \E quote \in Quotes, lots \in LotSizes, usd \in UsdThresholds :
      LET raised == congelar_quote_raises(quote, lots)
          pips == IF raised THEN [tp |-> 0, sl |-> 0]
                  ELSE congelar_pips(quote, lots, usd[1], usd[2]) IN
      /\ last_calc = NoCalc
      /\ last_calc' = [NoCalc EXCEPT !.step = "congelar", !.quote = quote,
                                     !.lots = lots, !.usd = usd,
                                     !.raised = raised,
                                     !.orders = IF raised THEN 0 ELSE 1,
                                     !.tp = pips.tp, !.sl = pips.sl]
      /\ UNCHANGED << versusVars, cacheVars, account_vps, now, last_read,
                      aggVars, vsVars, storeVars, createVars, httpVars,
                      lifeVars >>

\* Transferir receives its quote: it raises, or it derives A's new stops
\* and the requests for B's two legs.
transferir_quote ==
    \E quote \in Quotes, lots \in LotSizes, usd \in UsdThresholds,
       side \in {"BUY", "SELL"}, commission_per_lot \in Commissions :
      LET raised == transferir_quote_raises(quote, lots, side) IN
      /\ last_calc = NoCalc
      /\ last_calc' = [NoCalc EXCEPT !.step = "transferir", !.quote = quote,
                                     !.lots = lots, !.usd = usd,
                                     !.side = side,
                                     !.commission_per_lot = commission_per_lot,
                                     !.raised = raised,
                                     !.orders = IF raised THEN 0 ELSE 2,
                                     !.prices =
                                        IF raised THEN NoPrices
                                        ELSE transferir_prices(quote, lots, side,
                                                 usd[3], usd[4], commission_per_lot)]
      /\ UNCHANGED << versusVars, cacheVars, account_vps, now, last_read,
                      aggVars, vsVars, storeVars, createVars, httpVars,
                      lifeVars >>

NextQuote == congelar_quote \/ transferir_quote

SpecQuote == Init /\ [][NextQuote]_vars

\* ------------------------------------------------- cache and trade proxies
TradeOps == {"open", "close", "modify"}

RemoveAt(seq, k) == SubSeq(seq, 1, k - 1) \o SubSeq(seq, k + 1, Len(seq))

\* SmartCache.set_accounts: every listed account is stored with one shared
\* cached_at; `list` maps each listed account to its snapshot's phase and
\* `vs` to its snapshot's vs_group.
set_accounts(accounts, list, vs, t) ==
    [a \in Accounts |->
        IF a \in DOMAIN list
        THEN [present |-> TRUE, phase |-> list[a], vs_group |-> vs[a], cached_at |-> t]
        ELSE accounts[a]]

\* SmartCache.set_agent_statuses
set_agent_statuses(statuses, names, t) ==
    [g \in Agents |->
        IF g \in names THEN [present |-> TRUE, cached_at |-> t] ELSE statuses[g]]

\* SmartCache.update_account_field: the _accounts map after the call
update_account_field(accounts, account_number, field, value, t) ==
    IF ~accounts[account_number].present THEN accounts
    ELSE IF _is_expired(accounts[account_number].cached_at, t)
    THEN [accounts EXCEPT ![account_number] = NoEntry]
    ELSE [accounts EXCEPT ![account_number][field] = value,
                          ![account_number].cached_at = t]

\* fetch_all_agents stamps every account an agent returned with that agent's
\* name as vps_source; `reachable` are the agents that answered with their
\* account.
raw_accounts_of(reachable) ==
    [a \in {b \in Accounts : OwnerAgent(b) \in reachable} |->
        CHOOSE g \in reachable : OwnerAgent(a) = g]

update_bulk_replace(map, raw_accounts) ==
    [a \in Accounts |-> IF a \in DOMAIN raw_accounts THEN raw_accounts[a] ELSE NoAgent]

\* AccountVPSCache.update_bulk: each listed account is mapped to the
\* vps_source of its snapshot; the other entries stay.
update_bulk(map, raw_accounts) ==
    [a \in Accounts |-> IF a \in DOMAIN raw_accounts THEN raw_accounts[a] ELSE map[a]]

\* An _async_set task that cache.set created is ready to run. The event loop
\* runs it before it accepts a new request, so no handler starts meanwhile;
\* a handler whose agent has already answered may still resume before it.
TaskReady == \E k \in 1..Len(pending_sets) : pending_sets[k].pc = "set"

\* SmartCache.get_all_accounts: the accounts answered, {} for None.
get_all_accounts(accounts, refreshed_at, t) ==
    IF refreshed_at = -1 \/ _is_expired(refreshed_at, t) THEN {}
    ELSE {a \in Accounts : accounts[a].present /\ ~_is_expired(accounts[a].cached_at, t)}

\* SmartCache.get, the synchronous wrapper: under a running event loop it
\* answers None without looking at the cache.
get(accounts, refreshed_at, t, loop_is_running) ==
    IF loop_is_running THEN {} ELSE get_all_accounts(accounts, refreshed_at, t)

\* GET /api/accounts up to its await on the agents. The handler is a
\* coroutine, so cache.get() is called under the running event loop. A hit
\* is answered at once; otherwise the fan-out starts. `overtaken` collects
\* the accounts whose trade proxy returned success while this request was
\* in flight.
GetAllAccountsBegin ==
    \E force_refresh \in BOOLEAN :
      LET cached == IF force_refresh THEN {}
                    ELSE get(cache_accounts, last_full_refresh, now, TRUE) IN
      /\ ~TaskReady
      /\ Len(pending_sets) < MaxPendingSets
      /\ pending_sets' =
            IF cached # {} THEN pending_sets
            ELSE Append(pending_sets,
                   [pc |-> "fetch", force |-> force_refresh, list |-> << >>,
                    names |-> {}, overtaken |-> {}, vps_source |-> << >>,
                    vs_group |-> << >>])
      /\ UNCHANGED << versusVars,
                      cache_accounts, agent_statuses, last_full_refresh, phases,
                      account_vps, now, auxVars >>

\* The fan-out has returned: the reachable agents' accounts enter the account
\* map, the snapshots are enriched with the phase overlay and cache.set
\* creates the _async_set task.
GetAllAccountsFetched ==
    \E k \in 1..Len(pending_sets), reachable \in SUBSET Agents :
      LET raw_accounts == raw_accounts_of(reachable) IN
      /\ pending_sets[k].pc = "fetch"
      /\ account_vps' = update_bulk(account_vps, raw_accounts)
      /\ pending_sets' = [pending_sets EXCEPT ![k] =
            [@ EXCEPT !.pc = "set",
                      !.list = [a \in DOMAIN raw_accounts |-> get_phase(phases, a)],
                      !.vps_source = raw_accounts,
                      !.vs_group = [a \in DOMAIN raw_accounts |-> vs_values[a]],
                      !.names = Agents]]
      /\ UNCHANGED << versusVars, cache_accounts, agent_statuses, last_full_refresh,
                      phases, now, auxVars >>

\* SmartCache._async_set: set_accounts, then set_agent_statuses.
AsyncSet ==
    \E k \in 1..Len(pending_sets) :
      /\ pending_sets[k].pc = "set"
      /\ cache_accounts' = set_accounts(cache_accounts, pending_sets[k].list,
                                       pending_sets[k].vs_group, now)
      /\ last_full_refresh' = now
      /\ agent_statuses' = set_agent_statuses(agent_statuses, pending_sets[k].names, now)
      /\ pending_sets' = RemoveAt(pending_sets, k)
      /\ UNCHANGED << versusVars, phases, account_vps, now, auxVars >>

\* A trade proxy (proxy_open_position, proxy_close_position or
\* proxy_modify_position) up to its POST to the owning agent. On a miss of
\* the account map the handler runs fetch_all_agents, which leaves the map
\* as it was, and answers 404.
ProxyTradeBegin ==
    \E account_number \in Accounts, op \in TradeOps :
      /\ ~TaskReady
      /\ nApi < MaxTrades
      /\ nApi' = nApi + 1
      /\ inv' = [inv EXCEPT ![nApi + 1] =
            IF account_vps[account_number] = NoAgent
            THEN [NoInv EXCEPT !.kind = op, !.src = "api",
                               !.account_a = account_number, !.pc = "done",
                               !.result = "not_found", !.calls = Cardinality(Agents)]
            ELSE [NoInv EXCEPT !.kind = op, !.src = "api",
                               !.account_a = account_number, !.pc = "post"]]
      /\ UNCHANGED << versus_configs, nextId, sched_pc, sched_queue, positions,
                      sent, cacheVars, account_vps, now, auxVars >>

\* The tickets of an account's open positions at its agent.
OpenTickets(pos, account) ==
    {t \in 1..Len(pos) : pos[t].account = account /\ pos[t].open}

\* The agent has answered the proxied order. A result with success=true
\* invalidates the account's cache entry; an HTTP error or an exception is
\* passed on and leaves the cache alone.
ProxyTradeReturn(s) ==
    /\ inv[s].kind \in TradeOps
    /\ inv[s].pc = "post"
    /\ \E outcome \in {"ok", "refused", "exception"} :
         IF outcome = "ok"
         THEN /\ \/ /\ inv[s].kind = "open"
                    /\ CanOpen(positions)
                    /\ positions' = AgentOpen(positions, inv[s].account_a, "BUY", 0)
                 \/ /\ inv[s].kind = "close"
                    /\ \E ticket \in OpenTickets(positions, inv[s].account_a) :
                         positions' = AgentClose(positions, ticket)
                 \/ /\ inv[s].kind = "modify"
                    /\ OpenTickets(positions, inv[s].account_a) # {}
                    /\ positions' = positions
              /\ cache_accounts' = invalidate_account(cache_accounts, inv[s].account_a)
              /\ pending_sets' =
                    [k \in 1..Len(pending_sets) |->
                       [pending_sets[k] EXCEPT !.overtaken = @ \cup {inv[s].account_a}]]
              /\ inv' = [inv EXCEPT ![s] =
                    [@ EXCEPT !.pc = "done", !.result = "success", !.calls = 1]]
         ELSE /\ inv' = [inv EXCEPT ![s] =
                    [@ EXCEPT !.pc = "done", !.result = outcome, !.calls = 1]]
              /\ UNCHANGED << positions, cache_accounts, pending_sets >>
    /\ UNCHANGED << versus_configs, nextId, nApi, sched_pc, sched_queue, sent,
                    agent_statuses, last_full_refresh, phases, account_vps, now, auxVars >>

ProxyTradeResume == \E s \in Slots : ProxyTradeReturn(s)

\* SmartCache.get_account called for an account: the answer is recorded with
\* the age of the entry it came from; an entry found expired is deleted.
GetAccount ==
    \E account_number \in Accounts :
      LET result == get_account_result(cache_accounts, account_number, now) IN
      /\ ~TaskReady
      /\ last_read' = [account |-> account_number, present |-> result.present,
                       age |-> IF result.present THEN now - result.cached_at ELSE 0]
      /\ cache_accounts' =
            IF cache_accounts[account_number].present
               /\ _is_expired(cache_accounts[account_number].cached_at, now)
            THEN [cache_accounts EXCEPT ![account_number] = NoEntry]
            ELSE cache_accounts
      /\ UNCHANGED << versusVars, agent_statuses, last_full_refresh, pending_sets,
                      phases, account_vps, now, aggVars, vsVars, storeVars, createVars, httpVars, calcVars, lifeVars >>

\* PUT /api/accounts/{account_number}/phase
update_account_phase ==
    \E account_number \in {200}, phase \in Phases :
      /\ ~TaskReady
      /\ phases[account_number] # phase
      /\ phases' = update_phase(phases, account_number, phase)
      /\ phase_file' = phases'
      /\ phase_updated' = [phase_updated EXCEPT ![account_number] = phase]
      /\ cache_accounts' = update_account_field(cache_accounts, account_number, "phase", phase, now)
      /\ UNCHANGED << versusVars, agent_statuses, last_full_refresh, pending_sets,
                      account_vps, now, last_read, aggVars, vsVars,
                      store_pc, torn, restarts, createVars, httpVars, calcVars, lifeVars >>

\* POST /api/refresh: SmartCache.clear and AccountVPSCache.clear
force_refresh ==
    /\ ~TaskReady
    /\ \/ \E a \in Accounts : cache_accounts[a].present \/ account_vps[a] # NoAgent
       \/ last_full_refresh # -1
    /\ cache_accounts' = [a \in Accounts |-> NoEntry]
    /\ agent_statuses' = [g \in Agents |-> [present |-> FALSE, cached_at |-> 0]]
    /\ last_full_refresh' = -1
    /\ account_vps' = [a \in Accounts |-> NoAgent]
    /\ UNCHANGED << versusVars, pending_sets, phases, now, auxVars >>

\* The wall clock advances.
Tick ==
    /\ now < MaxTime
    /\ now' = now + 1
    /\ UNCHANGED << versusVars, cacheVars, account_vps, auxVars >>

\* The backend after construction: nothing cached, nothing mapped. Each
\* account already holds one open position at its agent.
InitCache ==
    /\ versus_configs = << >>
    /\ FeaturesEnabled
    /\ nextId = 1
    /\ inv = [s \in Slots |-> NoInv]
    /\ nApi = 0
    /\ sched_pc = "sleep"
    /\ sched_queue = << >>
    /\ positions = AgentOpen(AgentOpen(<< >>, 100, "BUY", 0), 200, "SELL", 0)
    /\ sent = [i \in 1..MaxRecords |-> NoOrders]
    /\ now = 0
    /\ agent_statuses = [g \in Agents |-> [present |-> FALSE, cached_at |-> 0]]
    /\ pending_sets = << >>
    /\ phases = [a \in Accounts |-> NoPhase]
    /\ phase_file = phases
    /\ phase_updated = phases
    /\ store_pc = NoWrite
    /\ torn = {}
    /\ restarts = 0
    /\ last_create = NoCreate
    /\ last_request = NoRequest
    /\ last_calc = NoCalc
    /\ shutdown_event = FALSE
    /\ last_read = NoRead
    /\ agent_failure_counts = [g \in Agents |-> 0]
    /\ fetches = [c \in Calls |-> [g \in Agents |-> NoFetch]]
    /\ vs_values = [a \in VsAccounts |-> NoVs]
    /\ vs_file = vs_values
    /\ last_vs = NoVsCall
    /\ account_vps = [a \in Accounts |-> NoAgent]
    /\ cache_accounts = [a \in Accounts |-> NoEntry]
    /\ last_full_refresh = -1

NextCache ==
    \/ GetAllAccountsBegin
    \/ GetAllAccountsFetched
    \/ AsyncSet
    \/ ProxyTradeBegin
    \/ ProxyTradeResume
    \/ GetAccount
    \/ update_account_phase
    \/ force_refresh
    \/ Tick

SpecCache == InitCache /\ [][NextCache]_vars

\* ------------------------------------------------------- VS group updates
\* A plausible slip: the cached snapshot is updated before the refusal is
\* raised.
vs_cache_update_always(success, accounts, account_number, value, t) ==
    IF account_number \in Accounts
    THEN update_account_field(accounts, account_number, "vs_group", value, t)
    ELSE accounts

\* update_account_vs after update_vs: a refusal is raised as HTTP 400 before
\* the cache is reached; otherwise the cached snapshot of the account, if
\* any, gets the group as sent.
vs_cache_update(success, accounts, account_number, value, t) ==
    IF success /\ account_number \in Accounts
    THEN update_account_field(accounts, account_number, "vs_group", value, t)
    ELSE accounts

\* PUT /api/accounts/{account_number}/vs. save_vs_values logs a failed write
\* and goes on, so the file may keep its old content.
update_account_vs ==
    \E account_number \in VsAccounts, vs_group \in VsInputs, written \in BOOLEAN :
      LET r == update_vs(vs_values, account_number, vs_group) IN
      /\ ~TaskReady
      /\ vs_values' = r.vs_values
      /\ vs_file' = IF r.save /\ written THEN r.vs_values ELSE vs_file
      /\ cache_accounts' = vs_cache_update(r.success, cache_accounts, account_number,
                                           vs_group, now)
      /\ last_vs' = [account_number |-> account_number, vs_group |-> vs_group,
                     status_code |-> IF r.success THEN 200 ELSE 400]
      /\ UNCHANGED << versusVars, agent_statuses, last_full_refresh, pending_sets,
                      phases, account_vps, now, last_read, aggVars, storeVars, createVars, httpVars, calcVars, lifeVars >>

NextVs ==
    \/ update_account_vs
    \/ GetAllAccountsBegin
    \/ GetAllAccountsFetched
    \/ AsyncSet

SpecVs == InitCache /\ [][NextVs]_vars

\* ------------------------------------------- overlay files across restarts
MaxRestarts == 1

\* load_phases / load_vs_values: the dict read from the file; a file that
\* does not parse makes json.load raise and leaves the empty dict.
load(file, store, empty) == IF store \in torn THEN empty ELSE file

\* PUT /api/accounts/{account_number}/phase up to save_phases: the dict is
\* changed in memory and the write of the file is about to start.
StorePhaseBegin ==
    \E account_number \in Accounts, phase \in Phases :
      /\ store_pc.pc = "idle"
      /\ phases' = update_phase(phases, account_number, phase)
      /\ phase_updated' = [phase_updated EXCEPT ![account_number] = phase]
      /\ store_pc' = [pc |-> "open", store |-> "phase", before |-> phases,
                      account_number |-> account_number, value |-> phase]
      /\ UNCHANGED << versusVars, cache_accounts, agent_statuses, last_full_refresh,
                      pending_sets, account_vps, now, last_read, aggVars, vsVars,
                      phase_file, torn, restarts, createVars, httpVars, calcVars, lifeVars >>

\* PUT /api/accounts/{account_number}/vs up to save_vs_values; a refusal and
\* a removal of no key save nothing and finish at once.
StoreVsBegin ==
    \E account_number \in {100, 300}, vs_group \in {<< >>, <<"A">>} :
      LET r == update_vs(vs_values, account_number, vs_group) IN
      /\ store_pc.pc = "idle"
      /\ vs_values' = r.vs_values
      /\ last_vs' = [account_number |-> account_number, vs_group |-> vs_group,
                     status_code |-> IF r.success THEN 200 ELSE 400]
      /\ IF r.save
         THEN /\ store_pc' = [pc |-> "open", store |-> "vs", before |-> vs_values,
                              account_number |-> account_number, value |-> vs_group]
              /\ UNCHANGED cache_accounts
         ELSE /\ store_pc' = NoWrite
              /\ cache_accounts' = vs_cache_update(r.success, cache_accounts,
                                                   account_number, vs_group, now)
      /\ UNCHANGED << versusVars, agent_statuses, last_full_refresh, pending_sets,
                      phases, account_vps, now, last_read, aggVars, vs_file,
                      phase_file, phase_updated, torn, restarts, createVars, httpVars, calcVars, lifeVars >>

\* The handler goes on after the save: the cached snapshot is updated.
StoreFinish ==
    /\ store_pc' = NoWrite
    /\ cache_accounts' =
          IF store_pc.store = "phase"
          THEN update_account_field(cache_accounts, store_pc.account_number,
                                    "phase", store_pc.value, now)
          ELSE vs_cache_update(TRUE, cache_accounts, store_pc.account_number,
                               store_pc.value, now)

\* open(file_path, 'w'): the file is truncated; if the open raises, the
\* error is logged, the file keeps its content and the handler goes on.
StoreOpen ==
    /\ store_pc.pc = "open"
    /\ \E opened \in BOOLEAN :
         IF opened
         THEN /\ torn' = torn \cup {store_pc.store}
              /\ store_pc' = [store_pc EXCEPT !.pc = "dump"]
              /\ UNCHANGED cache_accounts
         ELSE /\ torn' = torn
              /\ StoreFinish
    /\ UNCHANGED << versusVars, agent_statuses, last_full_refresh, pending_sets,
                    phases, account_vps, now, last_read, aggVars, vsVars,
                    phase_file, phase_updated, restarts, createVars, httpVars, calcVars, lifeVars >>

\* json.dump into the truncated file: the file holds the dict when the
\* write completes; if it raises, the error is logged and the file stays
\* cut short.
StoreDump ==
    /\ store_pc.pc = "dump"
    /\ \E written \in BOOLEAN :
         /\ torn' = IF written THEN torn \ {store_pc.store} ELSE torn
         /\ phase_file' = IF written /\ store_pc.store = "phase" THEN phases
                          ELSE phase_file
         /\ vs_file' = IF written /\ store_pc.store = "vs" THEN vs_values
                       ELSE vs_file
    /\ StoreFinish
    /\ UNCHANGED << versusVars, agent_statuses, last_full_refresh, pending_sets,
                    phases, account_vps, now, last_read, aggVars, vs_values, last_vs,
                    phase_updated, restarts, createVars, httpVars, calcVars, lifeVars >>

\* The process stops at any point and is started again: the managers load
\* their files and every cache starts empty.
StoreRestart ==
    /\ restarts < MaxRestarts
    /\ restarts' = restarts + 1
    /\ phases' = load(phase_file, "phase", [a \in Accounts |-> NoPhase])
    /\ phase_updated' = phases'
    /\ vs_values' = load(vs_file, "vs", [a \in VsAccounts |-> NoVs])
    /\ last_vs' = NoVsCall
    /\ store_pc' = NoWrite
    /\ cache_accounts' = [a \in Accounts |-> NoEntry]
    /\ agent_statuses' = [g \in Agents |-> [present |-> FALSE, cached_at |-> 0]]
    /\ last_full_refresh' = -1
    /\ account_vps' = [a \in Accounts |-> NoAgent]
    /\ UNCHANGED << versusVars, pending_sets, now, last_read, aggVars,
                    vs_file, phase_file, torn, createVars, httpVars, calcVars, lifeVars >>

NextStore ==
    \/ StorePhaseBegin
    \/ StoreVsBegin
    \/ StoreOpen
    \/ StoreDump
    \/ StoreRestart

SpecStore == InitCache /\ [][NextStore]_vars

\* ------------------------------------------------------ aggregator fan-out
\* What an agent can answer to GET /accounts.
Outcomes == {"connected", "disconnected", "timeout", "connect_error", "other_error"}
Bodies == {"connected", "disconnected"}

\* A plausible slip: an unexpected exception is not caught.
except_status_raises(outcome) ==
    IF outcome = "timeout" THEN "timeout"
    ELSE IF outcome = "connect_error" THEN "offline" ELSE "raised"

\* The except clauses of fetch_agent_data: the status each exception gives.
except_status(outcome) ==
    IF outcome = "timeout" THEN "timeout"
    ELSE IF outcome = "connect_error" THEN "offline" ELSE "error"

\* fetch_agent_data returns.
Returned(r, accounts, status) ==
    [r EXCEPT !.pc = "done", !.accounts = accounts, !.status = status]

\* An exception of a GET /accounts reaches the except clauses: the counter
\* is incremented and, on a connection error at the threshold, the refresh
\* is triggered before returning.
OnException(c, g, r, outcome) ==
    /\ agent_failure_counts[g] < MaxFailures
    /\ agent_failure_counts' = [agent_failure_counts EXCEPT ![g] = @ + 1]
    /\ fetches' = [fetches EXCEPT ![c][g] =
          IF outcome = "connect_error"
             /\ agent_failure_counts[g] + 1 >= max_failures_before_recovery
          THEN [r EXCEPT !.pc = "refresh_offline", !.accounts = << >>]
          ELSE Returned(r, << >>, except_status(outcome))]

\* fetch_all_agents starts one fetch_agent_data per configured agent.
FetchAllBegin(c) ==
    /\ \A g \in Agents : fetches[c][g].pc = "idle"
    /\ fetches' = [fetches EXCEPT ![c] = [g \in Agents |-> [NoFetch EXCEPT !.pc = "get"]]]
    /\ UNCHANGED << versusVars, cacheVars, account_vps, now, last_read,
                    agent_failure_counts, vsVars, storeVars, createVars, httpVars, calcVars, lifeVars >>

\* The first GET /accounts of fetch_agent_data is answered.
FetchFirst(c, g) ==
    /\ fetches[c][g].pc = "get"
    /\ \E outcome \in Outcomes :
         LET r == [fetches[c][g] EXCEPT !.last = outcome] IN
         IF outcome = "connected"
         THEN /\ agent_failure_counts' = [agent_failure_counts EXCEPT ![g] = 0]
              /\ fetches' = [fetches EXCEPT ![c][g] =
                    Returned(r, << <<"first", outcome>> >>, "online")]
         ELSE IF outcome = "disconnected"
         THEN /\ agent_failure_counts[g] < MaxFailures
              /\ agent_failure_counts' = [agent_failure_counts EXCEPT ![g] = @ + 1]
              /\ fetches' = [fetches EXCEPT ![c][g] =
                    IF agent_failure_counts[g] + 1 >= max_failures_before_recovery
                    THEN [r EXCEPT !.pc = "refresh",
                                   !.accounts = << <<"first", outcome>> >>]
                    ELSE Returned(r, << <<"first", outcome>> >>, "online")]
         ELSE OnException(c, g, r, outcome)
    /\ UNCHANGED << versusVars, cacheVars, account_vps, now, last_read, vsVars, storeVars, createVars, httpVars, calcVars, lifeVars >>

\* trigger_agent_refresh has answered on the disconnected path: after a
\* success the counter is reset and the GET is retried; after a failure the
\* first answer is returned.
FetchRefresh(c, g) ==
    /\ fetches[c][g].pc = "refresh"
    /\ \E recovery_success \in BOOLEAN :
         IF recovery_success
         THEN /\ agent_failure_counts' = [agent_failure_counts EXCEPT ![g] = 0]
              /\ fetches' = [fetches EXCEPT ![c][g] =
                    [@ EXCEPT !.pc = "retry", !.refresh = "ok"]]
         ELSE /\ fetches' = [fetches EXCEPT ![c][g] =
                    Returned([@ EXCEPT !.refresh = "failed"], @.accounts, "online")]
              /\ UNCHANGED agent_failure_counts
    /\ UNCHANGED << versusVars, cacheVars, account_vps, now, last_read, vsVars, storeVars, createVars, httpVars, calcVars, lifeVars >>

\* The retry GET /accounts after a successful refresh is answered.
FetchRetry(c, g) ==
    /\ fetches[c][g].pc = "retry"
    /\ \E outcome \in Outcomes :
         LET r == [fetches[c][g] EXCEPT !.last = outcome] IN
         IF outcome \in Bodies
         THEN /\ fetches' = [fetches EXCEPT ![c][g] =
                    Returned(r, << <<"retry", outcome>> >>, "online")]
              /\ UNCHANGED agent_failure_counts
         ELSE OnException(c, g, r, outcome)
    /\ UNCHANGED << versusVars, cacheVars, account_vps, now, last_read, vsVars, storeVars, createVars, httpVars, calcVars, lifeVars >>

\* trigger_agent_refresh has answered on the connection-error path: the
\* counter is reset whatever the answer.
FetchRefreshOffline(c, g) ==
    /\ fetches[c][g].pc = "refresh_offline"
    /\ \E recovery_success \in BOOLEAN :
         fetches' = [fetches EXCEPT ![c][g] =
            Returned([@ EXCEPT !.refresh = IF recovery_success THEN "ok" ELSE "failed"],
                     << >>, "offline")]
    /\ agent_failure_counts' = [agent_failure_counts EXCEPT ![g] = 0]
    /\ UNCHANGED << versusVars, cacheVars, account_vps, now, last_read, vsVars, storeVars, createVars, httpVars, calcVars, lifeVars >>

\* asyncio.gather has every result: fetch_all_agents builds the status
\* vector and the flat snapshot list and returns.
FetchAllReturn(c) ==
    /\ \A g \in Agents : fetches[c][g].pc = "done"
    /\ fetches' = [fetches EXCEPT ![c] = [g \in Agents |-> NoFetch]]
    /\ UNCHANGED << versusVars, cacheVars, account_vps, now, last_read,
                    agent_failure_counts, vsVars, storeVars, createVars, httpVars, calcVars, lifeVars >>

fetch_all_agents == \E c \in Calls : FetchAllBegin(c) \/ FetchAllReturn(c)

fetch_agent_data ==
    \E c \in Calls, g \in Agents :
       \/ FetchFirst(c, g)
       \/ FetchRefresh(c, g)
       \/ FetchRetry(c, g)
       \/ FetchRefreshOffline(c, g)

NextAgg == fetch_all_agents \/ fetch_agent_data

SpecAgg == InitCache /\ [][NextAgg]_vars

\* ------------------------------------------------------------------ claims
Forward(a, b) ==
    \/ a = b
    \/ a = "pending" /\ b = "congelado"
    \/ a = "congelado" /\ b = "transferido"
    \/ a # "error" /\ b = "error"

\* C1: over any interleaving of create, Congelar, Transferir and delete, a
\* record's status only moves forward (pending -> congelado -> transferido,
\* or into error); it never goes back, and error stays error until delete.
C1_StatusOnlyForward ==
    [][\A i \in DOMAIN versus_configs \cap DOMAIN versus_configs' :
          Forward(versus_configs[i].status, versus_configs'[i].status)]_vars

\* C2: of the concurrent invocations of one step on one record at most one
\* succeeds, and the step's orders reach the agents at most once per record
\* (one BUY and one SELL on A; one close on A and two opens on B).
C2_StepOrdersSentOnce ==
    \A i \in 1..MaxRecords :
        /\ sent[i]["congelar_ok"] <= 1 /\ sent[i]["transferir_ok"] <= 1
        /\ sent[i]["buy_a"] <= 1 /\ sent[i]["sell_a"] <= 1
        /\ sent[i]["close_a"] <= 1 /\ sent[i]["open_b"] <= 2

\* C3: when the BUY succeeded and the SELL was refused, the invocation
\* issues exactly one close for the BUY ticket, reports the SELL failure
\* whatever the close answered, and leaves the record in error with
\* tickets_a empty.
C3_CongelarRollback ==
    [][\A s \in Slots :
          (inv[s].pc = "rollback" /\ inv'[s].pc = "done") =>
             /\ inv'[s].result = "open_sell_failed"
             /\ inv'[s].rollbacks = 1
             /\ sent'[inv[s].id]["rollback_a"] = sent[inv[s].id]["rollback_a"] + 1
             /\ inv[s].id \in DOMAIN versus_configs' =>
                  /\ versus_configs'[inv[s].id].status = "error"
                  /\ versus_configs'[inv[s].id].tickets_a = << >>]_vars

IsLeg(ticket, versus_id, account, order_type) ==
    /\ ticket \in 1..Len(positions)
    /\ positions[ticket].versus = versus_id
    /\ positions[ticket].account = account
    /\ positions[ticket].order_type = order_type

\* C4: every record in congelado holds exactly two tickets in tickets_a, the
\* BUY then the SELL that Congelar opened on account A.
C4_CongeladoTwoTickets ==
    \A i \in DOMAIN versus_configs :
        versus_configs[i].status = "congelado" =>
            /\ Len(versus_configs[i].tickets_a) = 2
            /\ IsLeg(versus_configs[i].tickets_a[1], i,
                     versus_configs[i].account_a, "BUY")
            /\ IsLeg(versus_configs[i].tickets_a[2], i,
                     versus_configs[i].account_a, "SELL")

C4_Witness ==
    \E i \in DOMAIN versus_configs :
        /\ versus_configs[i].status = "congelado"
        /\ sent[i]["congelar_ok"] >= 1

\* C5: every record in transferido holds exactly one ticket in tickets_a and
\* exactly two in tickets_b.
C5_TransferidoTickets ==
    \A i \in DOMAIN versus_configs :
        versus_configs[i].status = "transferido" =>
            /\ Len(versus_configs[i].tickets_a) = 1
            /\ Len(versus_configs[i].tickets_b) = 2

C5_Witness ==
    \E i \in DOMAIN versus_configs :
        /\ versus_configs[i].status = "transferido"
        /\ sent[i]["transferir_ok"] >= 1

\* C6: a Congelar or Transferir command rejected by the status precondition
\* leaves the record's status, tickets_a, tickets_b and error_message as
\* they were; a duplicate trigger never moves a record to error.
C6_RejectedCommandBenign ==
    [][\A s \in Slots :
          (inv'[s] # inv[s] /\ inv'[s].pc = "done"
             /\ inv'[s].result = "status_mismatch") =>
          versus_configs' = versus_configs]_vars

\* Results that report an agent's refusal or failure to answer a call.
AgentRefusals ==
    {"quote_failed", "open_buy_failed", "open_sell_failed", "transport_error",
     "close_failed", "open_b_failed"}

\* C7: of two Congelar invocations in succession on a pending record, with
\* the agents accepting every call, the first succeeds and the second fails
\* with the status mismatch without any call to an agent.
C7_SecondCongelarRejected ==
    [][\A s \in Slots :
          (inv'[s] # inv[s] /\ inv'[s].kind = "congelar" /\ inv'[s].pc = "done") =>
             \* the first: it met a pending record and no agent refused
             /\ (inv'[s].result \notin AgentRefusals \cup {"not_found", "status_mismatch"}
                   => inv'[s].result = "success")
             \* the second: it was entered after a success on the same record
             /\ ((/\ ~InFlight(inv[s])
                  /\ inv'[s].id \in DOMAIN versus_configs
                  /\ sent[inv'[s].id]["congelar_ok"] >= 1)
                   => /\ inv'[s].result = "status_mismatch"
                      /\ inv'[s].calls = 0
                      /\ sent' = sent /\ positions' = positions)]_vars

\* C8: when Transferir succeeds after Congelar, the ticket it closed is the
\* leg opened against the record's side, the one ticket left in tickets_a
\* is the leg opened in direction side, and both B legs are opposite to side.
C8_TransferirLegs ==
    [][\A s \in Slots :
          (/\ inv[s].kind = "transferir" /\ inv[s].pc = "open_b"
           /\ inv'[s].pc = "done" /\ inv'[s].result = "success"
           /\ inv[s].id \in DOMAIN versus_configs') =>
          LET c == versus_configs'[inv[s].id]
              leg(t, account, order_type) ==
                  /\ t \in 1..Len(positions')
                  /\ positions'[t].versus = c.id
                  /\ positions'[t].account = account
                  /\ positions'[t].order_type = order_type
          IN /\ leg(inv[s].closed, c.account_a, opposite_side(c.side))
             /\ ~positions'[inv[s].closed].open
             /\ Len(c.tickets_a) = 1
             /\ leg(c.tickets_a[1], c.account_a, c.side)
             /\ c.tickets_a[1] # inv[s].closed
             /\ Len(c.tickets_b) = 2
             /\ \A k \in 1..2 : leg(c.tickets_b[k], c.account_b, opposite_side(c.side))]_vars

C8_Witness ==
    \E i \in DOMAIN versus_configs :
        /\ versus_configs[i].status = "transferido"
        /\ versus_configs[i].side = "SELL"
        /\ Len(versus_configs[i].tickets_a) = 1
        /\ IsLeg(versus_configs[i].tickets_a[1], i, versus_configs[i].account_a, "SELL")
        /\ \E t \in 1..Len(positions) :
              IsLeg(t, i, versus_configs[i].account_a, "BUY") /\ ~positions[t].open

\* The step in which the trade proxy of slot s returns the agent's
\* success=true result.
TradeSucceeds(s) ==
    /\ inv[s].kind \in TradeOps
    /\ inv[s].pc = "post"
    /\ inv'[s].pc = "done"
    /\ inv'[s].result = "success"

\* C9: once a trade proxy call for account a has returned success=true,
\* get_account(a) is absent, and it stays absent until the bulk insertion of
\* an aggregation made after that trade puts a back.
C9_AbsentUntilSubsequentAggregation ==
    [][\A a \in Accounts :
          /\ (\E s \in Slots : TradeSucceeds(s) /\ inv[s].account_a = a)
               => ~get_account_result(cache_accounts', a, now').present
          /\ (/\ \E s \in Slots : /\ inv[s].kind \in TradeOps
                                  /\ inv[s].result = "success"
                                  /\ inv[s].account_a = a
              /\ ~cache_accounts[a].present
              /\ cache_accounts'[a].present)
               => \E k \in 1..Len(pending_sets) :
                     /\ pending_sets[k].pc = "set"
                     /\ a \in DOMAIN pending_sets[k].list
                     /\ a \notin pending_sets[k].overtaken
                     /\ pending_sets' = RemoveAt(pending_sets, k)]_vars

\* C10: the invalidation that follows a successful trade on account a
\* changes a's entry only: every other account's snapshot and cached_at, the
\* agent statuses and last_full_refresh are as before, and every other
\* account reads as it did before the trade.
C10_InvalidateFrame ==
    [][\A s \in Slots :
          TradeSucceeds(s) =>
             /\ \A b \in Accounts \ {inv[s].account_a} :
                   /\ cache_accounts'[b] = cache_accounts[b]
                   /\ get_account_result(cache_accounts', b, now')
                        = get_account_result(cache_accounts, b, now)
             /\ agent_statuses' = agent_statuses
             /\ last_full_refresh' = last_full_refresh]_vars

C10_Witness ==
    \E s \in Slots, b \in Accounts :
        /\ inv[s].kind \in TradeOps
        /\ inv[s].result = "success"
        /\ b # inv[s].account_a
        /\ ~cache_accounts[inv[s].account_a].present
        /\ get_account_result(cache_accounts, b, now).present
        /\ last_full_refresh # -1
        /\ \A g \in Agents : agent_statuses[g].present

\* The step is a get_account(a) call: it touches nothing but a's entry and
\* the record of the read.
ReadOf(a) ==
    /\ last_read'.account = a
    /\ \A b \in Accounts \ {a} : cache_accounts'[b] = cache_accounts[b]
    /\ UNCHANGED << versusVars, agent_statuses, last_full_refresh, pending_sets,
                    phases, account_vps, now, aggVars, vsVars, storeVars, createVars, httpVars, calcVars, lifeVars >>

\* C11: a snapshot that get_account returns was cached at most ttl_seconds
\* before the read; a read that finds the entry expired removes it and
\* answers absent.
C11_ReadWithinTtl ==
    [][/\ last_read'.present => last_read'.age \in 0..ttl_seconds
       /\ \A a \in Accounts :
             (/\ ReadOf(a)
              /\ cache_accounts[a].present
              /\ _is_expired(cache_accounts[a].cached_at, now))
               => ~last_read'.present /\ ~cache_accounts'[a].present]_vars

C11_Witness ==
    /\ last_read.present
    /\ last_read.age = ttl_seconds
    /\ \E b \in Accounts \ {last_read.account} :
          ~cache_accounts[b].present /\ last_full_refresh # -1

\* C12: a GET /api/accounts without force_refresh starts a fan-out to the
\* agents only when the Smart Cache holds no unexpired full refresh.
C12_HitIssuesNoFetch ==
    [][\A k \in 1..Len(pending_sets') :
          (/\ Len(pending_sets') = Len(pending_sets) + 1
           /\ k = Len(pending_sets')
           /\ ~pending_sets'[k].force)
            => get_all_accounts(cache_accounts, last_full_refresh, now) = {}]_vars

\* C13: whatever the agents answer, failing refreshes and retries included,
\* every fetch_agent_data returns a status and never raises: online with
\* the snapshot when the agent's last GET was answered, and timeout,
\* offline or error with no snapshot when it was not.
C13_AggregationNeverRaises ==
    \A c \in Calls, g \in Agents :
        fetches[c][g].pc = "done" =>
            /\ fetches[c][g].status \in {"online", "timeout", "offline", "error"}
            /\ fetches[c][g].last \in Bodies =>
                  /\ fetches[c][g].status = "online"
                  /\ Len(fetches[c][g].accounts) = 1
            /\ fetches[c][g].last = "timeout" =>
                  fetches[c][g].status = "timeout" /\ fetches[c][g].accounts = << >>
            /\ fetches[c][g].last = "connect_error" =>
                  fetches[c][g].status = "offline" /\ fetches[c][g].accounts = << >>
            /\ fetches[c][g].last = "other_error" =>
                  fetches[c][g].status = "error" /\ fetches[c][g].accounts = << >>

C13_Witness ==
    \E c \in Calls :
        /\ \A g \in Agents : fetches[c][g].pc = "done" /\ fetches[c][g].accounts = << >>
        /\ fetches[c]["agent-1"].refresh = "ok"
        /\ fetches[c]["agent-1"].status = "error"
        /\ fetches[c]["agent-2"].refresh = "failed"
        /\ fetches[c]["agent-2"].status = "offline"

\* fetch_agent_data of call c for agent g returns in this step.
FetchEnds(c, g) == fetches[c][g].pc \notin {"idle", "done"} /\ fetches'[c][g].pc = "done"

\* C14: a fetch answered disconnected issues POST /refresh exactly when the
\* counter it has just incremented has reached the threshold, which takes
\* two failing fetches with no connected answer between them; and a fetch
\* that issued the refresh returns the snapshot of the retry.
C14_RefreshAtThreshold ==
    [][\A c \in Calls, g \in Agents :
          /\ (fetches[c][g].pc = "get" /\ fetches'[c][g].last = "disconnected") =>
                /\ fetches'[c][g].pc = "refresh"
                     <=> agent_failure_counts'[g] >= max_failures_before_recovery
                /\ fetches'[c][g].pc = "refresh" => agent_failure_counts[g] >= 1
          /\ (FetchEnds(c, g) /\ fetches[c][g].pc \in {"refresh", "retry"}) =>
                \A i \in 1..Len(fetches'[c][g].accounts) :
                   fetches'[c][g].accounts[i][1] = "retry"]_vars

\* C15: a fetch that attempted an auto-recovery refresh, on either path and
\* whether the refresh call succeeded or failed, ends with the agent's
\* failure counter at 0.
C15_CounterResetAfterRefresh ==
    [][\A c \in Calls, g \in Agents :
          (FetchEnds(c, g) /\ fetches'[c][g].refresh # "none")
            => agent_failure_counts'[g] = 0]_vars

\* C16: when a Versus step misses the Account-Agent Map, the aggregation it
\* triggers (every agent answers, so every account is reported by its
\* agent) repopulates the map for the step's account and the step goes on
\* to the agent; it does not end as account-not-found.
C16_MissRepopulatesMap ==
    [][\A s \in DOMAIN inv :
          (inv[s].pc = "resolve" /\ inv'[s].pc # "resolve")
            => /\ account_vps'[inv[s].account_a] = OwnerAgent(inv[s].account_a)
               /\ inv'[s].result # "account_not_found"]_vars

\* C17: POST /api/refresh clears the Smart Cache and leaves the
\* Account-Agent Map as it was.
C17_RefreshKeepsMap ==
    [][(last_full_refresh # -1 /\ last_full_refresh' = -1)
          => /\ cache_accounts' = [a \in Accounts |-> NoEntry]
             /\ account_vps' = account_vps]_vars

\* C18: when the aggregation of GET /api/accounts has returned, every
\* snapshot carries the agent that reported it as owner, the Account-Agent
\* Map maps every returned account to that agent, and the map entries of
\* the accounts this aggregation did not return are as they were.
C18_AggregationUpdatesMap ==
    [][\A k \in 1..Len(pending_sets) :
          (pending_sets[k].pc = "fetch" /\ Len(pending_sets') = Len(pending_sets)
             /\ pending_sets'[k].pc = "set")
            => LET vps_source == pending_sets'[k].vps_source IN
               /\ \A a \in DOMAIN vps_source :
                     /\ vps_source[a] = OwnerAgent(a)
                     /\ account_vps'[a] = vps_source[a]
               /\ \A a \in Accounts \ DOMAIN vps_source :
                     account_vps'[a] = account_vps[a]]_vars

\* An aggregation has just returned account 100 only, while the map holds
\* account 200 from an earlier aggregation.
C18_Witness ==
    \E k \in 1..Len(pending_sets) :
       /\ pending_sets[k].pc = "set"
       /\ DOMAIN pending_sets[k].vps_source = {100}
       /\ account_vps[100] = OwnerAgent(100)
       /\ account_vps[200] = OwnerAgent(200)

\* The accounts that hold the group g in the overlay.
HoldersOf(values, g) == {a \in VsAccounts : values[a] = g}

\* C19: starting from the empty overlay, whatever VS updates are made, no
\* non-empty vs_group is held by more than two distinct accounts.
C19_AtMostTwoPerGroup ==
    \A a \in VsAccounts :
       vs_values[a] # NoVs => Cardinality(HoldersOf(vs_values, vs_values[a])) <= 2

\* A third account has just asked for a group that two accounts hold, in a
\* spelling with surrounding blanks.
C19_Witness ==
    /\ last_vs.vs_group # strip(last_vs.vs_group)
    /\ strip(last_vs.vs_group) # NoVs
    /\ last_vs.account_number \notin HoldersOf(vs_values, strip(last_vs.vs_group))
    /\ Cardinality(HoldersOf(vs_values, strip(last_vs.vs_group))) = 2

\* C20: a VS update of account a to a group g that two other accounts hold
\* is answered 400 and changes nothing: the overlay, a's previous group
\* included, the persisted file and a's cached snapshot are as before.
C20_RefusalChangesNothing ==
    [][\A a \in VsAccounts :
          (/\ last_vs' # last_vs
           /\ last_vs'.account_number = a
           /\ strip(last_vs'.vs_group) # NoVs
           /\ Cardinality(HoldersOf(vs_values, strip(last_vs'.vs_group)) \ {a}) >= 2)
            => /\ last_vs'.status_code = 400
               /\ vs_values' = vs_values
               /\ vs_file' = vs_file
               /\ cache_accounts' = cache_accounts]_vars

\* Account 100, cached and holding a group of its own, has just been
\* refused the group the two other accounts hold.
C20_Witness ==
    /\ last_vs.status_code = 400
    /\ last_vs.account_number = 100
    /\ cache_accounts[100].present
    /\ ~_is_expired(cache_accounts[100].cached_at, now)
    /\ vs_values[100] # NoVs
    /\ vs_values[100] # strip(last_vs.vs_group)
    /\ Cardinality(HoldersOf(vs_values, strip(last_vs.vs_group))) = 2

\* C21: Phase.get of an account answers the value of the last Phase.update
\* made on that account since the overlay was loaded, whatever was updated
\* on other accounts, and "F1" for an account with no update and no stored
\* value.
C21_PhaseGetAfterUpdate ==
    \A a \in Accounts :
       get_phase(phases, a) =
          IF phase_updated[a] = NoPhase THEN "F1" ELSE phase_updated[a]

\* Account 100 was updated to F2 and afterwards account 200 to F1, and the
\* second request has completed.
C21_Witness ==
    /\ phase_updated[100] = "F2"
    /\ phase_updated[200] = "F1"
    /\ store_pc.pc = "idle"
    /\ restarts = 0

\* The in-memory content of a store just before the mutation in flight.
BeforeOf(store, content) ==
    IF store_pc.store = store THEN store_pc.before ELSE content

\* C27: when the process crashes and the stores are loaded from their
\* files, each loaded store equals the in-memory store just before or just
\* after the one mutation that was in flight.
C27_CrashLosesAtMostInFlight ==
    [][restarts' # restarts
         => /\ phases' \in {phases, BeforeOf("phase", phases)}
            /\ vs_values' \in {vs_values, BeforeOf("vs", vs_values)}]_vars

\* The request of the create that this step answered, if it answered one.
CreateAnswered == last_create' # last_create

C23_ValidCreateStored ==
    [][(/\ CreateAnswered
        /\ last_create'.account_a # last_create'.account_b
        /\ last_create'.lots > 0
        /\ last_create'.side \in {"BUY", "SELL"})
         => /\ last_create'.status_code = 200
            /\ last_create'.written
            /\ DOMAIN versus_configs' = DOMAIN versus_configs \cup {last_create'.id}
            /\ last_create'.id \notin DOMAIN versus_configs
            /\ LET c == versus_configs'[last_create'.id]
                   q == last_create' IN
               /\ c.status = "pending"
               /\ c.tickets_a = << >> /\ c.tickets_b = << >>
               /\ c.account_a = q.account_a /\ c.account_b = q.account_b
               /\ c.side = q.side
               /\ << c.tp_usd_a, c.sl_usd_a, c.tp_usd_b, c.sl_usd_b >> = q.usd
               /\ c.scheduled_congelar = q.sc
               /\ c.scheduled_transferir = q.st]_vars

\* Record i is pending and its scheduled_congelar has passed.
DueCongelar(i) ==
    /\ i \in DOMAIN versus_configs
    /\ versus_configs[i].status = "pending"
    /\ versus_configs[i].scheduled_congelar \in {"due", "due_aware"}

\* The scheduler's loop enters Congelar for record i in this step.
SchedExecutesCongelar(i) ==
    /\ sched_pc = "congelar" /\ sched_queue # << >> /\ Head(sched_queue) = i
    /\ sched_queue' = Tail(sched_queue)

\* C24, first half: every record that is pending with scheduled_congelar <=
\* now eventually leaves pending (to congelado or error, or is deleted).
C24_DueCongelarLeavesPending ==
    \A i \in 1..MaxRecords :
       DueCongelar(i) ~> (i \notin DOMAIN versus_configs
                           \/ versus_configs[i].status # "pending")

\* C24, second half: the scheduler never executes Congelar on a pending
\* record that has no schedule or whose schedule is in the future.
C24_SchedulerOnlyDue ==
    [][\A i \in 1..MaxRecords :
          (SchedExecutesCongelar(i) /\ i \in DOMAIN versus_configs
             /\ versus_configs[i].status = "pending")
            => versus_configs[i].scheduled_congelar \in {"due", "due_aware"}]_vars

\* Record i is congelado and its scheduled_transferir has passed.
DueTransferir(i) ==
    /\ i \in DOMAIN versus_configs
    /\ versus_configs[i].status = "congelado"
    /\ versus_configs[i].scheduled_transferir = "due"

\* C25: every record that is congelado with scheduled_transferir <= now is
\* eventually executed by the scheduler's Transferir scan and leaves
\* congelado (to transferido or error, or is deleted).
C25_DueTransferirLeavesCongelado ==
    \A i \in 1..MaxRecords :
       DueTransferir(i) ~> (i \notin DOMAIN versus_configs
                             \/ versus_configs[i].status # "congelado")

\* No record is due: none is pending with a scheduled_congelar that has
\* passed and none is congelado with a scheduled_transferir that has passed.
NoneDue ==
    \A i \in DOMAIN versus_configs :
       /\ ~(versus_configs[i].status = "pending"
            /\ versus_configs[i].scheduled_congelar \in {"due", "due_aware"})
       /\ ~(versus_configs[i].status = "congelado"
            /\ versus_configs[i].scheduled_transferir = "due")

\* A step of the scheduler's loop: one of its scans, the start of an
\* execution, or the return to sleep.
SchedStep == sched_pc' # sched_pc \/ sched_queue' # sched_queue

\* C26: a scan of the scheduler that finds no due record starts no
\* execution, so the scheduler makes no call to an agent and changes no
\* record: the scan leaves the queue empty, and the scheduler's slot, the
\* store, the agents' positions and the orders sent are as before.
C26_IdleScanDoesNothing ==
    [][(NoneDue /\ sched_pc \in {"sleep", "congelar"} /\ SchedStep
          /\ sched_queue = << >>)
         => /\ sched_queue' = << >>
            /\ UNCHANGED << versus_configs, inv, positions, sent >>]_vars

\* Both scans of an iteration have run while a pending record with a
\* schedule still to come exists, and nothing was executed.
C26_Witness ==
    /\ sched_pc = "transferir" /\ sched_queue = << >>
    /\ \E i \in DOMAIN versus_configs :
          /\ versus_configs[i].status = "pending"
          /\ versus_configs[i].scheduled_congelar = "future"
    /\ inv[0] = NoInv
    /\ NoneDue

\* The last request is of a method other than OPTIONS.
NonOptions == last_request.method \notin {"none", "OPTIONS"}

\* The path has the form /api/accounts/{id}/trade/*.
TradePath(path) ==
    /\ Len(path) >= 5
    /\ path[1] = "api" /\ path[2] = "accounts" /\ path[4] = "trade"

\* The path lies under /api/versus.
VersusPath(path) == Len(path) >= 2 /\ path[1] = "api" /\ path[2] = "versus"

Unauthenticated(r) ==
    \/ ~r.header.present
    \/ r.header.scheme # "Bearer"
    \/ ~verify_token(r.header.token, r.current_time)

\* C29: a non-OPTIONS request to a non-public path without a valid bearer
\* token is answered 401 and runs no handler, whatever the feature flags.
C29_UnauthenticatedAnswered401 ==
    (NonOptions /\ ~public_path(last_request.path)
       /\ Unauthenticated(last_request))
      => (last_request.status_code = 401 /\ last_request.handler = "none")

\* The part of C29 that holds: such a request runs no handler.
C29_UnauthenticatedRunsNoHandler ==
    (NonOptions /\ ~public_path(last_request.path)
       /\ Unauthenticated(last_request))
      => (last_request.status_code \in {401, 503}
          /\ last_request.handler = "none")

\* The invocation in slot s has its close of A's counter-leg fail in this
\* step.
CloseFails(s) ==
    /\ inv[s].kind = "transferir" /\ inv[s].pc = "close"
    /\ inv'[s].pc = "done" /\ inv'[s].result = "close_failed"

\* The invocation in slot s sends an open order to B's agent in this step.
OpensB(s) ==
    /\ inv[s].kind = "transferir" /\ inv[s].pc = "open_b"
    /\ inv'[s] # inv[s]

\* C30: when the close of A's counter-leg fails, the invocation ends there:
\* the record, if it still exists, is in error, and the invocation has sent
\* no modify to A and no open to B. An invocation opens a B leg only after
\* its close of A's counter-leg has succeeded, the leg being closed at the
\* agent.
C30_FailedCloseStopsTransferir ==
    [][\A s \in Slots :
          /\ CloseFails(s) =>
                /\ inv[s].id \in DOMAIN versus_configs' =>
                      versus_configs'[inv[s].id].status = "error"
                /\ sent'[inv[s].id]["modify_a"] = sent[inv[s].id]["modify_a"]
                /\ sent'[inv[s].id]["open_b"] = sent[inv[s].id]["open_b"]
                /\ positions' = positions
                /\ inv'[s].calls = inv[s].calls + 1
          /\ OpensB(s) =>
                /\ inv[s].closed # 0
                /\ inv[s].closed = ticket_to_close(inv[s].side, inv[s].buy,
                                                   inv[s].sell)
                /\ ~positions[inv[s].closed].open]_vars

\* A Transferir has failed at its close, the record is in error, and
\* neither a modify nor an open on B was sent for the record.
C30_Witness ==
    \E s \in Slots :
       /\ inv[s].kind = "transferir" /\ inv[s].pc = "done"
       /\ inv[s].result = "close_failed"
       /\ inv[s].id \in DOMAIN versus_configs
       /\ versus_configs[inv[s].id].status = "error"
       /\ sent[inv[s].id]["close_a"] = 1
       /\ sent[inv[s].id]["modify_a"] = 0
       /\ sent[inv[s].id]["open_b"] = 0

\* The modify call of the Transferir in slot s is answered in this step.
ModifyAnswered(s) ==
    /\ inv[s].kind = "transferir" /\ inv[s].pc = "modify"
    /\ inv'[s] # inv[s]

\* C31: however the modify on A's remaining ticket fails, the invocation
\* goes on to the opens on B: the step that answers the modify never ends
\* the invocation and never marks the record error.
C31_ModifyFailureNotFatal ==
    [][\A s \in Slots :
          ModifyAnswered(s) =>
             /\ inv'[s].pc = "open_b"
             /\ versus_configs' = versus_configs]_vars

\* The open on B that the Transferir in slot s sent fails in this step.
OpenBFails(s) ==
    /\ OpensB(s)
    /\ inv'[s].pc = "done" /\ inv'[s].result # "success"

\* C32: when an open on B fails, the invocation ends there: the record, if
\* it still exists, is in error, no position is opened or closed at any
\* agent, and no close or rollback order is sent for the record.
C32_FailedOpenBStopsTransferir ==
    [][\A s \in Slots :
          OpenBFails(s) =>
             /\ inv[s].id \in DOMAIN versus_configs' =>
                   versus_configs'[inv[s].id].status = "error"
             /\ positions' = positions
             /\ sent'[inv[s].id]["open_b"] = sent[inv[s].id]["open_b"] + 1
             /\ sent'[inv[s].id]["close_a"] = sent[inv[s].id]["close_a"]
             /\ sent'[inv[s].id]["rollback_a"] = sent[inv[s].id]["rollback_a"]
             /\ inv'[s].calls = inv[s].calls + 1]_vars

\* A Transferir failed at its second open on B: the record is in error, A's
\* remaining leg and the first B leg are still open.
C32_Witness ==
    \E s \in Slots :
       /\ inv[s].kind = "transferir" /\ inv[s].pc = "done"
       /\ inv[s].result = "open_b_failed"
       /\ inv[s].id \in DOMAIN versus_configs
       /\ versus_configs[inv[s].id].status = "error"
       /\ sent[inv[s].id]["open_b"] = 2
       /\ sent[inv[s].id]["close_a"] = 1
       /\ \E t \in 1..Len(positions) :
             /\ positions[t].account = versus_configs[inv[s].id].account_b
             /\ positions[t].versus = inv[s].id
             /\ positions[t].open

\* The quote lacks one of the six keys or reports a pip_value <= 0.
UnusableQuote(quote) ==
    \/ quote.has # QuoteKeys
    \/ quote.val["pip_value"] <= 0

\* C33: a quote that lacks bid, ask, point, pip_value, trade_tick_value or
\* spread_pips, or reports pip_value <= 0, makes Congelar raise before it
\* sends an open order to A's agent.
C33_UnusableQuoteFailsCongelar ==
    (last_calc.step = "congelar" /\ UnusableQuote(last_calc.quote))
       => (last_calc.raised /\ last_calc.orders = 0)

\* The part of C33 that holds: a reported pip_value <= 0 makes Congelar
\* raise when point and trade_tick_value are positive.
C33_NonPositivePipValueFailsCongelar ==
    (/\ last_calc.step = "congelar"
     /\ "pip_value" \in last_calc.quote.has
     /\ last_calc.quote.val["pip_value"] <= 0
     /\ quote_get(last_calc.quote, "point", 1) > 0
     /\ quote_get(last_calc.quote, "trade_tick_value", 1) > 0)
       => (last_calc.raised /\ last_calc.orders = 0)

\* A Transferir whose quote passed the checks and whose requests were
\* derived.
TransferirDerived == last_calc.step = "transferir" /\ ~last_calc.raised

\* B's USD threshold as a pip distance, adjusted as the claim states: the
\* spread subtracted for side BUY and added for side SELL, the commission
\* pips subtracted.
AdjustedPips(c, usd_b) ==
    LET upp == usd_per_pip(c.quote, c.lots)
        spread == quote_get(c.quote, "spread_pips", 0)
    IN (usd_b * 100 * 1000) \div upp
         + (IF c.side = "BUY" THEN 0 - spread ELSE spread)
         - (c.commission_per_lot * c.lots * 2 * 100) \div upp

Distance(a, b) == IF a >= b THEN a - b ELSE b - a

\* C34: in a Transferir, for either side, the pip distance of A's new
\* take-profit is B's stop-loss threshold in pips, adjusted by spread and
\* commission, and equals the stop-loss distance sent with B's legs up to
\* the rounding to 0.1 pip; the pip distance of A's new stop-loss is B's
\* take-profit threshold, adjusted, and equals the take-profit distance sent
\* with B's legs up to the rounding.
C34_CrossedPipDistances ==
    TransferirDerived =>
       /\ last_calc.prices.new_tp_pips_a = AdjustedPips(last_calc, last_calc.usd[4])
       /\ last_calc.prices.new_sl_pips_a = AdjustedPips(last_calc, last_calc.usd[3])
       /\ Distance(last_calc.prices.new_tp_pips_a,
                   last_calc.prices.sl_pips_b_send) <= 5
       /\ Distance(last_calc.prices.new_sl_pips_a,
                   last_calc.prices.tp_pips_b_send) <= 5

\* The worked example: 1 lot, side BUY, bid 1.10000, spread 1 pip, no
\* commission, tp_usd_b 50 and sl_usd_b 25 give A a take-profit 1.5 pips
\* away at 1.10015 and B two SELL legs of 0.5 lot with tp 4 and sl 1.5 pips.
C34_Witness ==
    /\ TransferirDerived
    /\ last_calc.side = "BUY" /\ last_calc.lots = 1000
    /\ last_calc.usd = <<30, 25, 50, 25>>
    /\ last_calc.commission_per_lot = 0
    /\ last_calc.quote.has = QuoteKeys
    /\ last_calc.quote.val["spread_pips"] = 100
    /\ last_calc.prices.new_tp_pips_a = 150
    /\ last_calc.prices.new_sl_pips_a = 400
    /\ last_calc.prices.tp_price_a = 11001500
    /\ last_calc.prices.opposite_side = "SELL"
    /\ last_calc.prices.tp_pips_b_send = 400
    /\ last_calc.prices.sl_pips_b_send = 150
    /\ last_calc.prices.half_lots = 50

\* C40: every open order that Transferir derives for account B carries a
\* take-profit distance, a stop-loss distance and a lot size all strictly
\* positive.
C40_PositiveOrdersOnB ==
    TransferirDerived =>
       /\ last_calc.prices.tp_pips_b_send > 0
       /\ last_calc.prices.sl_pips_b_send > 0
       /\ last_calc.prices.half_lots > 0

\* The scheduler enters a Congelar or Transferir execution in this step.
SchedStartsExecution == ~InFlight(inv[0]) /\ inv'[0] # inv[0]

\* The scheduler's execution ends in this step.
SchedEndsExecution == InFlight(inv[0]) /\ inv'[0].pc = "done"

TargetStatus(kind) == IF kind = "congelar" THEN "congelado" ELSE "transferido"

\* C35: once the shutdown event is set the scheduler enters no execution,
\* and an execution of the scheduler never ends with the record left in its
\* previous status: it has made its transition or the record is in error.
C35_ShutdownLeavesNoStepHalfDone ==
    [][/\ shutdown_event => ~SchedStartsExecution
       /\ SchedEndsExecution =>
             StatusOf(versus_configs', inv[0].id)
                \in {TargetStatus(inv[0].kind), "error", "absent"}]_vars

\* C36: while TRADING_ENABLED is false no agent has received an open, close
\* or modify order from the backend, whatever VERSUS_ENABLED is.
C36_NoOrdersWhileTradingDisabled ==
    ~TRADING_ENABLED =>
       /\ positions = << >>
       /\ \A i \in 1..MaxRecords : sent[i] = NoOrders

\* The tickets a record lists, and the positions opened for it that the
\* engine has not closed.
ListedTickets(versus_id) ==
    { versus_configs[versus_id].tickets_a[i] :
        i \in 1..Len(versus_configs[versus_id].tickets_a) }
    \cup { versus_configs[versus_id].tickets_b[i] :
        i \in 1..Len(versus_configs[versus_id].tickets_b) }
LivePositions(versus_id) ==
    { t \in 1..Len(positions) :
        positions[t].versus = versus_id /\ positions[t].open }
NoStepInFlight(versus_id) ==
    \A s \in Slots : ~(InFlight(inv[s]) /\ inv[s].id = versus_id)

\* C37: whenever no step is in flight on a record, tickets_a and tickets_b
\* list exactly the positions opened for the record and not closed by the
\* engine, in the error status too.
C37_TicketsMatchPositions ==
    \A versus_id \in DOMAIN versus_configs :
       NoStepInFlight(versus_id) =>
          ListedTickets(versus_id) = LivePositions(versus_id)

\* C37, one direction: no listed ticket is one the engine already closed.
C37_NoClosedTicketListed ==
    \A versus_id \in DOMAIN versus_configs :
       NoStepInFlight(versus_id) =>
          \A t \in ListedTickets(versus_id) :
             t \in 1..Len(positions) => positions[t].open

\* The invocation in slot s returns success in this step.
ReportsSuccess(s) == inv[s].result # "success" /\ inv'[s].result = "success"

\* C38: an invocation reports success only if, when it returns, the record
\* exists with the step's target status and lists the ticket the step just
\* opened; in particular not when the record was deleted meanwhile.
C38_SuccessMeansRecordUpdated ==
    [][\A s \in Slots :
         ReportsSuccess(s) =>
            /\ StatusOf(versus_configs', inv'[s].id) = TargetStatus(inv'[s].kind)
            /\ \E i \in 1..Len(TicketsAOf(versus_configs', inv'[s].id)
                            \o TicketsBOf(versus_configs', inv'[s].id)) :
                 (TicketsAOf(versus_configs', inv'[s].id)
                    \o TicketsBOf(versus_configs', inv'[s].id))[i]
                      = Len(positions')]_vars

\* C38, the other half: a step never re-creates a record; only the creation
\* of a new record adds an id to the store.
C38_StepNeverRecreates ==
    [][\A versus_id \in DOMAIN versus_configs' :
         versus_id \notin DOMAIN versus_configs => versus_id = nextId]_vars

\* The fetch_all_agents calls whose POST /refresh to agent g is in flight.
RefreshInFlight(g) ==
    { c \in Calls : fetches[c][g].pc \in {"refresh", "refresh_offline"} }

\* C39: for every agent at most one auto-recovery POST /refresh is in
\* flight at a time, however the concurrent fetch_all_agents calls
\* interleave.
C39_OneRefreshInFlight ==
    \A g \in Agents : Cardinality(RefreshInFlight(g)) <= 1

====
